---- MODULE Spec2Model ----
(***************************************************************************)
(* Card fingerprint matching, title parsing, query cascade and price trend *)
(* signals of collectorstream (src/analysis/fingerprint.py,                *)
(* src/analysis/portfolio_tracker.py, src/db/models.py).                   *)
(*                                                                         *)
(* Strings are TLA+ strings, read as sequences of one-character strings    *)
(* (Len, \o and SubSeq).  A Python value that may be None is a sequence of *)
(* length at most one: None is <<>> and a value v is <<v>>.  Floats are    *)
(* fixed point: a match score counts units of 1e-8 (One is 1.0).           *)
(***************************************************************************)
EXTENDS Integers, Sequences, FiniteSets, TLC

VARIABLES
    title,          \* the listing title handed to the scorer / parser (None or <<string>>)
    title_kw,       \* the same listing title with an autograph keyword added
    fingerprint,    \* the fingerprint the title is scored against
    score,          \* result of score_title_match(title, fingerprint), None before the call
    score_kw,       \* result of score_title_match(title_kw, fingerprint), None before the call
    parsed,         \* result of parse_title(title), None before the call
    queries,        \* level -> query string built so far by build_ebay_query
    card_row,       \* the portfolio_cards row of the card (None when there is none)
    price_history,  \* the card's portfolio_price_history rows, in insertion order
    now,            \* today's date, a day number
    trends,         \* None before calculate_trends is called, then <<its result>>
    title_mappings, \* card_title_mappings: raw_title -> row
    last_mapping,   \* the row the latest add_title_mapping call was given (None: no call yet)
    pc,             \* where price_check_card_ebay stands: "idle", "search", "done"
    cur_level,      \* the cascade level of the next search
    stored,         \* price_check_card_ebay's count of stored observations
    searches,       \* the searches issued so far by the running price check, in order
    portfolio_cards, \* the active cards price_check_all goes through
    batch_pos,      \* price_check_all: 0 before it runs, then the index of the card in hand
    checked,        \* price_check_all: the cards done, each with the count its check returned
    calls,          \* the calls of score_title_match and parse_title made so far, with their results
    summary         \* get_portfolio_summary: None before it runs, then <<its locals and where it stands>>

scorerVars == <<title, title_kw, fingerprint, score, score_kw, parsed, queries>>
storeVars == <<card_row, price_history, now, title_mappings, last_mapping>>
batchVars == <<portfolio_cards, batch_pos, checked>>
cascadeVars == <<pc, cur_level, stored, searches, batchVars>>
vars == <<scorerVars, storeVars, trends, cascadeVars, calls, summary>>

None == <<>>
Some(v) == <<v>>

\* ------------------------------------------------------------------ strings

Min(a, b) == IF a < b THEN a ELSE b
Max(a, b) == IF a > b THEN a ELSE b

CharAt(s, i) == SubSeq(s, i, i)

UpperLetters == "ABCDEFGHIJKLMNOPQRSTUVWXYZ"
LowerLetters == "abcdefghijklmnopqrstuvwxyz"
Digits == "0123456789"

CharsOf(s) == {CharAt(s, i) : i \in 1..Len(s)}

IndexIn(s, c) == CHOOSE i \in 1..Len(s) : CharAt(s, i) = c

ToLowerMap == [c \in CharsOf(UpperLetters) |-> CharAt(LowerLetters, IndexIn(UpperLetters, c))]
ToUpperMap == [c \in CharsOf(LowerLetters) |-> CharAt(UpperLetters, IndexIn(LowerLetters, c))]

IsUpper(c) == c \in DOMAIN ToLowerMap
IsLower(c) == c \in DOMAIN ToUpperMap
IsLetter(c) == IsUpper(c) \/ IsLower(c)
IsDigit(c) == c \in CharsOf(Digits)
IsSpace(c) == c \in {" ", "\t", "\n"}
IsWordChar(c) == IsLetter(c) \/ IsDigit(c) \/ c = "_"

LowerChar(c) == IF IsUpper(c) THEN ToLowerMap[c] ELSE c
UpperChar(c) == IF IsLower(c) THEN ToUpperMap[c] ELSE c

RECURSIVE Lower(_)
Lower(s) == IF s = "" THEN "" ELSE LowerChar(CharAt(s, 1)) \o Lower(SubSeq(s, 2, Len(s)))

\* str.title(): a letter after a non-letter is upper-cased, any other is lower-cased.
RECURSIVE TitleFrom(_, _)
TitleFrom(s, afterLetter) ==
    IF s = "" THEN ""
    ELSE LET c == CharAt(s, 1)
         IN (IF afterLetter THEN LowerChar(c) ELSE UpperChar(c))
                \o TitleFrom(SubSeq(s, 2, Len(s)), IsLetter(c))

TitleCase(s) == TitleFrom(s, FALSE)

\* needle in haystack
Contains(haystack, needle) ==
    \E i \in 1..(Len(haystack) - Len(needle) + 1) :
        SubSeq(haystack, i, i + Len(needle) - 1) = needle

\* str.strip()
RECURSIVE LStrip(_)
LStrip(s) == IF s # "" /\ IsSpace(CharAt(s, 1)) THEN LStrip(SubSeq(s, 2, Len(s))) ELSE s
RECURSIVE RStrip(_)
RStrip(s) ==
    IF s # "" /\ IsSpace(CharAt(s, Len(s))) THEN RStrip(SubSeq(s, 1, Len(s) - 1)) ELSE s
Strip(s) == RStrip(LStrip(s))

\* str.split(): the maximal runs of non-whitespace, in order
RECURSIVE WordEnd(_, _)
WordEnd(s, i) == IF i <= Len(s) /\ ~IsSpace(CharAt(s, i)) THEN WordEnd(s, i + 1) ELSE i
RECURSIVE Split(_)
Split(s) ==
    LET t == LStrip(s)
        e == WordEnd(t, 1)
    IN IF t = "" THEN <<>> ELSE <<SubSeq(t, 1, e - 1)>> \o Split(SubSeq(t, e, Len(t)))

\* " ".join(parts)
RECURSIVE Join(_)
Join(parts) ==
    IF parts = <<>> THEN ""
    ELSE IF Len(parts) = 1 THEN parts[1]
    ELSE parts[1] \o " " \o Join(Tail(parts))

\* str.replace(" ", "")
RECURSIVE RemoveSpaces(_)
RemoveSpaces(s) ==
    IF s = "" THEN ""
    ELSE (IF CharAt(s, 1) = " " THEN "" ELSE CharAt(s, 1)) \o RemoveSpaces(SubSeq(s, 2, Len(s)))

\* str(n) for an integer n >= 0
RECURSIVE IntToStr(_)
IntToStr(n) ==
    IF n < 10 THEN CharAt(Digits, n + 1)
    ELSE IntToStr(n \div 10) \o CharAt(Digits, (n % 10) + 1)

\* int(s) for a string of decimal digits
RECURSIVE StrToInt(_)
StrToInt(s) ==
    IF s = "" THEN 0
    ELSE 10 * StrToInt(SubSeq(s, 1, Len(s) - 1)) + (IndexIn(Digits, CharAt(s, Len(s))) - 1)

\* s[-2:]
LastTwo(s) == SubSeq(s, Max(1, Len(s) - 1), Len(s))

IsPrefix(p, s) == Len(p) <= Len(s) /\ SubSeq(s, 1, Len(p)) = p

\* a regex \b at the gap before position i of s (1-based; i = Len(s)+1 is the end)
WordAt(s, i) == i >= 1 /\ i <= Len(s) /\ IsWordChar(CharAt(s, i))
Boundary(s, i) == WordAt(s, i - 1) # WordAt(s, i)

\* \d{n} at position i
RECURSIVE DigitsAt(_, _, _)
DigitsAt(s, i, n) ==
    n = 0 \/ (i <= Len(s) /\ IsDigit(CharAt(s, i)) /\ DigitsAt(s, i + 1, n - 1))

\* the end (exclusive) of the run matched by a greedy \s* or \d* from position i
RECURSIVE SkipSpaces(_, _)
SkipSpaces(s, i) == IF i <= Len(s) /\ IsSpace(CharAt(s, i)) THEN SkipSpaces(s, i + 1) ELSE i
RECURSIVE SkipDigits(_, _)
SkipDigits(s, i) == IF i <= Len(s) /\ IsDigit(CharAt(s, i)) THEN SkipDigits(s, i + 1) ELSE i

LitAt(s, i, lit) == i + Len(lit) - 1 <= Len(s) /\ SubSeq(s, i, i + Len(lit) - 1) = lit

\* ------------------------------------------------------------- dictionaries

MANUFACTURERS == <<
    "panini", "topps", "leaf", "donruss", "bowman", "upper deck", "hoops",
    "fleer", "sage", "press pass", "sp authentic", "immaculate", "national treasures" >>

SETS == <<
    "prizm", "contenders", "crown royale", "mosaic", "select", "optic",
    "chronicles", "donruss", "elite", "absolute", "spectra", "flawless",
    "immaculate", "national treasures", "noir", "one and one", "court kings",
    "revolution", "status", "recon", "origins", "obsidian", "certified",
    "hoops", "prestige", "score", "playoff", "luminance", "illusions",
    "flux", "zenith", "clearly donruss", "clearly rated" >>

PARALLELS == <<
    "base", "silver", "gold", "red", "blue", "green", "orange", "purple",
    "pink", "black", "white", "yellow", "bronze", "platinum", "emerald",
    "ruby", "sapphire", "teal", "neon green", "neon orange", "neon pink",
    "pink shimmer", "cracked ice", "mojo", "hyper", "holo",
    "ice", "camo", "tie-dye", "tiger stripe", "snakeskin", "peacock",
    "disco", "fast break", "choice", "scope", "wave", "laser",
    "no huddle", "press proof", "rated rookie", "downtown" >>

AUTO_KEYWORDS == << "auto", "autograph", "autographed", "on card auto", "on-card auto" >>
ROOKIE_KEYWORDS == << "rc", "rookie", "rookie card" >>

\* any(kw in text for kw in keywords)
AnyIn(keywords, text) == \E i \in 1..Len(keywords) : Contains(text, keywords[i])

\* ------------------------------------------------------------ fixed point

\* the float 1.0 of a match score, in units of 1e-8
One == 100000000
\* a component score of 1.0: weights are hundredths, so weight * Full is a score
Full == One \div 100

\* ---------------------------------------------------- difflib.SequenceMatcher
\* SequenceMatcher(None, a, b) with no junk: titles are far shorter than the 200
\* elements at which difflib's autojunk heuristic starts.  Positions are 1-based,
\* ranges are lo inclusive, hi exclusive.

RECURSIVE RunLen(_, _, _, _, _, _)
RunLen(a, b, i, j, ahi, bhi) ==
    IF i < ahi /\ j < bhi /\ CharAt(a, i) = CharAt(b, j)
    THEN 1 + RunLen(a, b, i + 1, j + 1, ahi, bhi)
    ELSE 0

\* the longest block a[i..i+k) = b[j..j+k) in the ranges; of the longest, the one
\* starting earliest in a, and of those the one starting earliest in b
find_longest_match(a, b, alo, ahi, blo, bhi) ==
    LET runs == {<<i, j, RunLen(a, b, i, j, ahi, bhi)>> : i \in alo..(ahi - 1), j \in blo..(bhi - 1)}
        sizes == {r[3] : r \in runs}
        bestsize == CHOOSE k \in sizes : \A q \in sizes : q <= k
        starts == {r[1] : r \in {q \in runs : q[3] = bestsize}}
        besti == CHOOSE i \in starts : \A q \in starts : i <= q
        bstarts == {r[2] : r \in {q \in runs : q[3] = bestsize /\ q[1] = besti}}
        bestj == CHOOSE j \in bstarts : \A q \in bstarts : j <= q
    IN IF runs = {} \/ bestsize = 0
       THEN <<alo, blo, 0>>
       ELSE <<besti, bestj, bestsize>>

\* sum of the sizes of get_matching_blocks(): the longest match, then the same to
\* its left and to its right
RECURSIVE MatchedSize(_, _, _, _, _, _)
MatchedSize(a, b, alo, ahi, blo, bhi) ==
    IF alo >= ahi \/ blo >= bhi THEN 0
    ELSE LET m == find_longest_match(a, b, alo, ahi, blo, bhi)
         IN IF m[3] = 0 THEN 0
            ELSE m[3] + MatchedSize(a, b, alo, m[1], blo, m[2])
                      + MatchedSize(a, b, m[1] + m[3], ahi, m[2] + m[3], bhi)

Matches(a, b) == MatchedSize(a, b, 1, Len(a) + 1, 1, Len(b) + 1)

\* SequenceMatcher.ratio() = 2.0 * matches / (len(a) + len(b)), as a component score
Ratio(a, b) ==
    IF Len(a) + Len(b) = 0 THEN Full
    ELSE (2 * Matches(a, b) * Full) \div (Len(a) + Len(b))

\* ratio > 0.6, decided exactly
RatioAboveFloor(a, b) == 10 * 2 * Matches(a, b) > 6 * (Len(a) + Len(b))

\* ------------------------------------------------------------ match scorer

AllWordsIn(words, text) == \A i \in 1..Len(words) : Contains(text, words[i])

\* _fuzzy_match(needle, haystack) as a component score (Full = 1.0)
fuzzy_match(needle, haystack) ==
    LET needle_lower == Strip(Lower(needle))
        haystack_lower == Lower(haystack)
        words == Split(needle_lower)
    IN IF Contains(haystack_lower, needle_lower) THEN Full
       ELSE IF Len(words) > 1 /\ AllWordsIn(words, haystack_lower) THEN (9 * Full) \div 10
       ELSE IF RatioAboveFloor(needle_lower, haystack_lower)
            THEN Ratio(needle_lower, haystack_lower)
            ELSE 0

\* (the parallel weighted 0.20)
weights_heavy == [player |-> 30, year |-> 15, set |-> 20, parallel |-> 20,
                  auto |-> 10, grade |-> 5, numbered |-> 5]

weights == [player |-> 30, year |-> 15, set |-> 20, parallel |-> 15,
            auto |-> 10, grade |-> 5, numbered |-> 5]

\* Python truthiness of an optional integer / optional string
TruthyInt(x) == x # None /\ x[1] # 0
TruthyStr(x) == x # None /\ x[1] # ""

\* (the player compared even when the fingerprint has none)
PlayerPartUnguarded(t, fp) == weights.player * fuzzy_match(fp.player, t)

PlayerPart(t, fp) ==
    IF fp.player # "" THEN weights.player * fuzzy_match(fp.player, t) ELSE 0

\* re.search(rf"\b\d{4}-{short_year}\b", title)
SeasonRangeIn(t, short_year) ==
    \E i \in 1..Len(t) :
        /\ Boundary(t, i)
        /\ DigitsAt(t, i, 4)
        /\ LitAt(t, i + 4, "-" \o short_year)
        /\ Boundary(t, i + 5 + Len(short_year))

YearPart(t, fp) ==
    IF TruthyInt(fp.year) /\ Contains(t, IntToStr(fp.year[1])) THEN weights.year * Full
    ELSE IF TruthyInt(fp.year) /\ SeasonRangeIn(t, LastTwo(IntToStr(fp.year[1])))
         THEN weights.year * Full
         ELSE 0

SetPart(t, fp) ==
    IF fp.set # "" THEN weights.set * fuzzy_match(fp.set, t) ELSE 0

\* any(p in title_lower for p in PARALLELS if p != "base")
HasParallel(title_lower) ==
    \E i \in 1..Len(PARALLELS) : PARALLELS[i] # "base" /\ Contains(title_lower, PARALLELS[i])

\* (the half weight for a base card awarded whatever the title holds)
ParallelPartUnchecked(t, fp) ==
    IF TruthyStr(fp.parallel) /\ fp.parallel # Some("Base")
    THEN weights.parallel * fuzzy_match(fp.parallel[1], t)
    ELSE IF fp.parallel = Some("Base") THEN (weights.parallel * Full) \div 2 ELSE 0

ParallelPart(t, fp) ==
    IF TruthyStr(fp.parallel) /\ fp.parallel # Some("Base")
    THEN weights.parallel * fuzzy_match(fp.parallel[1], t)
    ELSE IF fp.parallel = Some("Base") /\ ~HasParallel(Lower(t))
         THEN (weights.parallel * Full) \div 2
         ELSE 0

\* (the penalty withheld instead of subtracted)
AutoPartWithheld(t, fp) ==
    IF fp.auto /\ AnyIn(AUTO_KEYWORDS, Lower(t)) THEN weights.auto * Full ELSE 0

AutoPart(t, fp) ==
    IF fp.auto
    THEN (IF AnyIn(AUTO_KEYWORDS, Lower(t)) THEN weights.auto * Full ELSE 0)
    ELSE (IF AnyIn(AUTO_KEYWORDS, Lower(t)) THEN 0 - (weights.auto * Full) \div 2 ELSE 0)

GradePart(t, fp) ==
    IF TruthyStr(fp.grade) /\ fp.grade # Some("Raw")
    THEN LET grade_lower == Lower(fp.grade[1])
             title_lower == Lower(t)
         IN IF Contains(title_lower, grade_lower) THEN weights.grade * Full
            ELSE IF Contains(RemoveSpaces(title_lower), RemoveSpaces(grade_lower))
                 THEN (weights.grade * Full * 8) \div 10
                 ELSE 0
    ELSE 0

NumberedPart(t, fp) ==
    IF TruthyInt(fp.numbered)
    THEN LET n == IntToStr(fp.numbered[1])
         IN IF Contains(t, "/" \o n) \/ Contains(t, "#" \o n) THEN weights.numbered * Full
            ELSE IF Contains(t, n) THEN (weights.numbered * Full) \div 2
            ELSE 0
    ELSE 0

\* the weighted sum before clamping
RawScore(t, fp) ==
    PlayerPart(t, fp) + YearPart(t, fp) + SetPart(t, fp) + ParallelPart(t, fp)
        + AutoPart(t, fp) + GradePart(t, fp) + NumberedPart(t, fp)

\* (the sum returned as it is)
score_title_match_unclamped(title_opt, fp) ==
    IF title_opt = None \/ title_opt[1] = "" THEN 0 ELSE RawScore(title_opt[1], fp)

\* score_title_match(title, fingerprint)
score_title_match(title_opt, fp) ==
    IF title_opt = None \/ title_opt[1] = "" THEN 0
    ELSE Max(0, Min(One, RawScore(title_opt[1], fp)))

\* the reference acceptance threshold 0.5
Threshold == One \div 2

\* ------------------------------------------------------------ query builder

\* build_fingerprint(card)
build_fingerprint(card) ==
    [player |-> card.player_name,
     year |-> card.card_year,
     manufacturer |-> card.manufacturer,
     set |-> card.set_name,
     parallel |-> card.parallel,
     numbered |-> card.numbered_to,
     auto |-> card.is_autograph # 0,
     rookie |-> card.is_rookie # 0,
     grade |-> card.grade]

Levels == 1..3

\* the parts each fingerprint field adds to a query of the given level
YearTerms(fp) == IF TruthyInt(fp.year) THEN <<IntToStr(fp.year[1])>> ELSE <<>>
SetTerms(fp, level) == IF level <= 3 /\ fp.set # "" THEN <<fp.set>> ELSE <<>>
ParallelTerms(fp, level) ==
    IF level <= 2 /\ TruthyStr(fp.parallel) /\ fp.parallel # Some("Base")
    THEN <<fp.parallel[1]>> ELSE <<>>
PreciseTerms(fp, level) ==
    IF level <= 1
    THEN (IF fp.auto THEN <<"auto">> ELSE <<>>)
            \o (IF TruthyStr(fp.grade) /\ fp.grade # Some("Raw") THEN <<fp.grade[1]>> ELSE <<>>)
            \o (IF TruthyInt(fp.numbered) THEN <<"/" \o IntToStr(fp.numbered[1])>> ELSE <<>>)
    ELSE <<>>

\* (the level-1 terms appended before the parallel)
build_ebay_query_misordered(fp, level) ==
    Join(<<fp.player>> \o YearTerms(fp) \o SetTerms(fp, level)
            \o PreciseTerms(fp, level) \o ParallelTerms(fp, level))

\* build_ebay_query(fingerprint, level)
build_ebay_query(fp, level) ==
    Join(<<fp.player>> \o YearTerms(fp) \o SetTerms(fp, level)
            \o ParallelTerms(fp, level) \o PreciseTerms(fp, level))

\* ------------------------------------------------------------ title parser

\* (regex, label) pairs; a regex is head \s* first optional? last (?!notnext)
GradePattern(head, first, optional, last, notnext, name) ==
    [head |-> head, first |-> first, optional |-> optional, last |-> last,
     notnext |-> notnext, name |-> name]

GRADE_PATTERNS == <<
    GradePattern("psa", "10", "", "", "", "PSA 10"),
    GradePattern("psa", "9", "", "", "", "PSA 9"),
    GradePattern("psa", "8", "", "", "", "PSA 8"),
    GradePattern("psa", "7", "", "", "", "PSA 7"),
    GradePattern("bgs", "10", "", "", "", "BGS 10"),
    GradePattern("bgs", "9", ".", "5", "", "BGS 9.5"),
    GradePattern("bgs", "9", "", "", ".", "BGS 9"),
    GradePattern("sgc", "10", "", "", "", "SGC 10"),
    GradePattern("sgc", "9", ".", "5", "", "SGC 9.5"),
    GradePattern("sgc", "9", "", "", ".", "SGC 9"),
    GradePattern("gem", "mint", "", "", "", "PSA 10") >>

\* the pattern matches text at position i
GradeMatchAt(p, text, i) ==
    /\ LitAt(text, i, p.head)
    /\ LET j == SkipSpaces(text, i + Len(p.head))
           k == j + Len(p.first)
       IN /\ LitAt(text, j, p.first)
          /\ \/ LitAt(text, k, p.optional \o p.last)
             \/ LitAt(text, k, p.last)
          /\ p.notnext = "" \/ ~LitAt(text, k, p.notnext)

\* re.search(pattern, text)
GradeSearch(p, text) == \E i \in 1..Len(text) : GradeMatchAt(p, text, i)

\* (no break: the last matching pattern wins)
LastGrade(text) ==
    LET hits == {i \in 1..Len(GRADE_PATTERNS) : GradeSearch(GRADE_PATTERNS[i], text)}
    IN IF hits = {} THEN None
       ELSE Some(GRADE_PATTERNS[CHOOSE i \in hits : \A j \in hits : i >= j].name)

\* the label of the first pattern that matches, None when none does
FirstGrade(text) ==
    LET hits == {i \in 1..Len(GRADE_PATTERNS) : GradeSearch(GRADE_PATTERNS[i], text)}
    IN IF hits = {} THEN None
       ELSE Some(GRADE_PATTERNS[CHOOSE i \in hits : \A j \in hits : i <= j].name)

\* YEAR_RE = \b(20\d{2})(?:-\d{2})?\b matches at position i
YearMatchAt(t, i) ==
    /\ Boundary(t, i)
    /\ LitAt(t, i, "20")
    /\ DigitsAt(t, i + 2, 2)
    /\ \/ Boundary(t, i + 4)
       \/ (LitAt(t, i + 4, "-") /\ DigitsAt(t, i + 5, 2) /\ Boundary(t, i + 7))

\* YEAR_RE.search(title): int(group(1)) of the leftmost match
YearOf(t) ==
    LET hits == {i \in 1..Len(t) : YearMatchAt(t, i)}
    IN IF hits = {} THEN None
       ELSE LET i == CHOOSE h \in hits : \A j \in hits : h <= j
            IN Some(StrToInt(SubSeq(t, i, i + 3)))

\* NUMBERED_RE = (?:/|#|numbered\s*)(\d+), IGNORECASE: where the digits start for
\* a match at position i, 0 when there is none
NumberedDigitsAt(t, i) ==
    LET j == IF LitAt(t, i, "/") \/ LitAt(t, i, "#") THEN i + 1
             ELSE IF i + 7 <= Len(t) /\ Lower(SubSeq(t, i, i + 7)) = "numbered"
                  THEN SkipSpaces(t, i + 8)
                  ELSE 0
    IN IF j > 0 /\ DigitsAt(t, j, 1) THEN j ELSE 0

\* NUMBERED_RE.search(title): int(group(1)) of the leftmost match
NumberedOf(t) ==
    LET hits == {i \in 1..Len(t) : NumberedDigitsAt(t, i) > 0}
    IN IF hits = {} THEN None
       ELSE LET i == CHOOSE h \in hits : \A j \in hits : h <= j
                d == NumberedDigitsAt(t, i)
            IN Some(StrToInt(SubSeq(t, d, SkipDigits(t, d) - 1)))

\* sorted(words, key=len, reverse=True): stable, longest first
RECURSIVE InsertByLen(_, _)
InsertByLen(w, sorted) ==
    IF sorted = <<>> THEN <<w>>
    ELSE IF Len(w) > Len(sorted[1]) THEN <<w>> \o sorted
    ELSE <<sorted[1]>> \o InsertByLen(w, Tail(sorted))
RECURSIVE SortedByLen(_)
SortedByLen(words) ==
    IF words = <<>> THEN <<>>
    ELSE InsertByLen(words[Len(words)], SortedByLen(SubSeq(words, 1, Len(words) - 1)))

sets_as_listed == SETS

sorted_sets == SortedByLen(SETS)
sorted_parallels == SortedByLen(PARALLELS)

\* (the word as the dictionary spells it, not title-cased)
FirstInRaw(words, text, skip) ==
    LET hits == {i \in 1..Len(words) : words[i] # skip /\ Contains(text, words[i])}
    IN IF hits = {} THEN None
       ELSE Some(words[CHOOSE i \in hits : \A j \in hits : i <= j])

\* the first word of the list (other than skip) found in text, title-cased
FirstIn(words, text, skip) ==
    LET hits == {i \in 1..Len(words) : words[i] # skip /\ Contains(text, words[i])}
    IN IF hits = {} THEN None
       ELSE Some(TitleCase(words[CHOOSE i \in hits : \A j \in hits : i <= j]))

EmptyDict == <<>>

\* parse_title(title, player_name)
parse_title(title_opt, player_name) ==
    IF title_opt = None \/ title_opt[1] = "" THEN EmptyDict
    ELSE LET t == title_opt[1]
             title_lower == Lower(t)
             numbered_to == NumberedOf(t)
         IN [player_name |-> player_name,
             card_year |-> YearOf(t),
             manufacturer |-> FirstIn(MANUFACTURERS, title_lower, ""),
             set_name |-> FirstIn(sorted_sets, title_lower, ""),
             parallel |-> FirstIn(sorted_parallels, title_lower, "base"),
             is_numbered |-> IF numbered_to = None THEN 0 ELSE 1,
             numbered_to |-> numbered_to,
             is_autograph |-> IF AnyIn(AUTO_KEYWORDS, title_lower) THEN 1 ELSE 0,
             is_rookie |-> IF AnyIn(ROOKIE_KEYWORDS, title_lower) THEN 1 ELSE 0,
             grade |-> FirstGrade(title_lower)]

\* ------------------------------------------------------- price trend engine
\* Prices and their means are exact rationals <<numerator, denominator>> with a
\* positive denominator, in lowest terms.  Dates are day numbers: ISO dates
\* sort as strings the way their days sort as numbers.

Abs(n) == IF n < 0 THEN 0 - n ELSE n

RECURSIVE Gcd(_, _)
Gcd(a, b) == IF b = 0 THEN a ELSE Gcd(b, a % b)

Rat(n, d) ==
    LET g == Gcd(Abs(n), d)
    IN IF n = 0 THEN <<0, 1>> ELSE <<n \div g, d \div g>>

RatInt(n) == <<n, 1>>
RatAdd(p, q) == Rat(p[1] * q[2] + q[1] * p[2], p[2] * q[2])
RatSub(p, q) == Rat(p[1] * q[2] - q[1] * p[2], p[2] * q[2])
RatScale(p, n, d) == Rat(p[1] * n, p[2] * d)
RatLess(p, q) == p[1] * q[2] < q[1] * p[2]
RatPos(p) == p[1] > 0

\* sum(...): the halves summed and added, so that a long list nests little
RECURSIVE RatSum(_)
RatSum(qs) ==
    IF qs = <<>> THEN RatInt(0)
    ELSE IF Len(qs) = 1 THEN qs[1]
    ELSE LET half == Len(qs) \div 2
         IN RatAdd(RatSum(SubSeq(qs, 1, half)), RatSum(SubSeq(qs, half + 1, Len(qs))))

\* round(x, places): to the nearest 10^-places, a tie to the even neighbour
Pow10(places) == IF places = 0 THEN 1 ELSE IF places = 1 THEN 10 ELSE 100
RoundTo(q, places) ==
    LET scale == Pow10(places)
        n == q[1] * scale
        floor == n \div q[2]
        twice == 2 * (n % q[2])
        up == twice > q[2] \/ (twice = q[2] /\ floor % 2 = 1)
    IN Rat(IF up THEN floor + 1 ELSE floor, scale)

\* the sorted distinct recorded dates of the rows: the k-th is the date with
\* k - 1 dates before it
SortedDates(dates) ==
    [k \in 1..Cardinality(dates) |->
        CHOOSE d \in dates : Cardinality({e \in dates : e < d}) = k - 1]

\* the prices recorded on day d, in row order
PricesOn(history, d) ==
    LET rows == SelectSeq(history, LAMBDA r : r.recorded_date = d)
    IN [i \in 1..Len(rows) |-> RatInt(rows[i].price)]

\* daily_avgs: per recorded date, in date order, the mean of that day's prices
daily_avgs(history) ==
    LET sorted_dates == SortedDates({history[i].recorded_date : i \in 1..Len(history)})
    IN [k \in 1..Len(sorted_dates) |->
            LET day == PricesOn(history, sorted_dates[k])
            IN RatScale(RatSum(day), 1, Len(day))]

\* (the mean of the first n daily points)
ma_oldest(prices, n) ==
    IF Len(prices) < 1 THEN None
    ELSE LET oldest == IF Len(prices) >= n THEN SubSeq(prices, 1, n) ELSE prices
         IN Some(RatScale(RatSum(oldest), 1, Len(oldest)))

\* _ma(prices, n): the mean of the last n daily points, of all when fewer
ma(prices, n) ==
    IF Len(prices) < 1 THEN None
    ELSE LET recent == IF Len(prices) >= n THEN SubSeq(prices, Len(prices) - n + 1, Len(prices))
                       ELSE prices
         IN Some(RatScale(RatSum(recent), 1, Len(recent)))

\* more than +10% / less than -10% of base: (x - base) / base against 0.10
PctClass(x, base) ==
    LET diff == RatSub(x, base)
    IN IF RatLess(RatScale(base, 1, 10), diff) THEN "rising"
       ELSE IF RatLess(diff, RatScale(base, -1, 10)) THEN "falling"
       ELSE "stable"

\* (the first and the last daily point compared, whatever the averages)
MomentumFirstLast(avgs) ==
    IF Len(avgs) >= 2 /\ RatPos(avgs[1]) THEN PctClass(avgs[Len(avgs)], avgs[1])
    ELSE "insufficient_data"

\* momentum: the 7-point average against the 30-point one, or with no positive
\* 30-point average the last daily point against the first
Momentum(avgs) ==
    LET ma_7 == ma(avgs, 7)
        ma_30 == ma(avgs, 30)
    IN IF ma_7 # None /\ ma_30 # None /\ RatPos(ma_30[1])
       THEN PctClass(ma_7[1], ma_30[1])
       ELSE IF Len(avgs) >= 2
            THEN (IF RatPos(avgs[1]) THEN PctClass(avgs[Len(avgs)], avgs[1])
                  ELSE "insufficient_data")
            ELSE "insufficient_data"

\* a purchase_date is None, <<[iso |-> FALSE]>> for text the try block raises on,
\* or <<[iso |-> TRUE, day |-> d]>>
IsoDate(d) == [iso |-> TRUE, day |-> d]
BadDate == [iso |-> FALSE]

\* (a purchase_date that does not parse counted from day 0)
DaysHeldSinceEpoch(purchase_date, today) ==
    IF purchase_date # None /\ purchase_date[1].iso THEN today - purchase_date[1].day ELSE today

\* days_held: 0 unless purchase_date parses, then (now - pdate).days
DaysHeld(purchase_date, today) ==
    IF purchase_date # None /\ purchase_date[1].iso THEN today - purchase_date[1].day ELSE 0

SignedToStr(n) == IF n < 0 THEN "-" \o IntToStr(0 - n) ELSE IntToStr(n)

FallingSignalCutLossesOnly(current_price, purchase_price) ==
    IF /\ current_price[1] # 0 /\ purchase_price[1] # 0
       /\ \/ RatLess(current_price, purchase_price)
          \/ RatLess(RatScale(purchase_price, 13, 10), current_price)
    THEN <<"SELL", "Falling price, below purchase - cut losses">>
    ELSE <<"HOLD", "Falling but near purchase price - monitor">>

\* (a price at the purchase price sold like one below it)
FallingSignalAtOrBelow(current_price, purchase_price) ==
    IF current_price[1] # 0 /\ purchase_price[1] # 0 /\ ~RatLess(purchase_price, current_price)
    THEN <<"SELL", "Falling price, below purchase - cut losses">>
    ELSE IF /\ current_price[1] # 0 /\ purchase_price[1] # 0
            /\ RatLess(RatScale(purchase_price, 13, 10), current_price)
         THEN <<"SELL", "Falling price, still profitable - lock in gains">>
         ELSE <<"HOLD", "Falling but near purchase price - monitor">>

\* the signal of a falling price
FallingSignal(current_price, purchase_price) ==
    IF current_price[1] # 0 /\ purchase_price[1] # 0 /\ RatLess(current_price, purchase_price)
    THEN <<"SELL", "Falling price, below purchase - cut losses">>
    ELSE IF /\ current_price[1] # 0 /\ purchase_price[1] # 0
            /\ RatLess(RatScale(purchase_price, 13, 10), current_price)
         THEN <<"SELL", "Falling price, still profitable - lock in gains">>
         ELSE <<"HOLD", "Falling but near purchase price - monitor">>

\* (a rising price above the purchase price sold)
MomentumSignalTakeProfit(momentum, current_price, purchase_price) ==
    IF momentum = "falling" THEN FallingSignal(current_price, purchase_price)
    ELSE IF momentum = "rising" /\ RatLess(purchase_price, current_price)
         THEN <<"SELL", "Rising price, above purchase - take profit">>
    ELSE IF momentum = "rising" THEN <<"HOLD", "Rising trend - hold for gains">>
    ELSE <<"HOLD", "Stable price - no urgency">>

\* the signal by momentum, once the two guards have passed
MomentumSignal(momentum, current_price, purchase_price) ==
    IF momentum = "falling" THEN FallingSignal(current_price, purchase_price)
    ELSE IF momentum = "rising" THEN <<"HOLD", "Rising trend - hold for gains">>
    ELSE <<"HOLD", "Stable price - no urgency">>

SignalOfNoHoldGuard(avgs, momentum, days_held, current_price, purchase_price) ==
    IF Len(avgs) < 3 THEN <<"HOLD", "Insufficient price data">>
    ELSE MomentumSignal(momentum, current_price, purchase_price)

\* the signal and its reason
SignalOf(avgs, momentum, days_held, current_price, purchase_price) ==
    IF Len(avgs) < 3 THEN <<"HOLD", "Insufficient price data">>
    ELSE IF days_held < 30
         THEN <<"HOLD", "Held " \o SignedToStr(days_held) \o " days - too early to signal">>
    ELSE MomentumSignal(momentum, current_price, purchase_price)

\* x if x else None, rounded
RoundedOrNone(x, places) == IF x = None \/ x[1][1] = 0 THEN None ELSE Some(RoundTo(x[1], places))

\* calculate_trends(card_id) on the store's card row and price rows
calculate_trends(card, history, today) ==
    IF card = None THEN None
    ELSE IF history = <<>>
    THEN Some([card_id |-> card[1].id, current_price |-> None, ma_7 |-> None, ma_30 |-> None,
               momentum |-> "insufficient_data", signal |-> "HOLD",
               signal_reason |-> "No price data yet",
               gain_loss |-> None, gain_loss_pct |-> None, price_count |-> 0])
    ELSE LET purchase_price == IF card[1].purchase_price = None THEN RatInt(0)
                               ELSE RatInt(card[1].purchase_price[1])
             avgs == daily_avgs(history)
             current_price == avgs[Len(avgs)]
             momentum == Momentum(avgs)
             days_held == DaysHeld(card[1].purchase_date, today)
             sig == SignalOf(avgs, momentum, days_held, current_price, purchase_price)
             gain_loss == IF purchase_price[1] # 0
                          THEN Some(RatSub(current_price, purchase_price)) ELSE None
             gain_loss_pct == IF gain_loss = None THEN None
                              ELSE Some(RatScale(gain_loss[1], 100 * purchase_price[2], purchase_price[1]))
         IN Some([card_id |-> card[1].id,
                  current_price |-> Some(current_price),
                  ma_7 |-> RoundedOrNone(ma(avgs, 7), 2),
                  ma_30 |-> RoundedOrNone(ma(avgs, 30), 2),
                  momentum |-> momentum,
                  signal |-> sig[1],
                  signal_reason |-> sig[2],
                  gain_loss |-> IF gain_loss = None THEN None ELSE Some(RoundTo(gain_loss[1], 2)),
                  gain_loss_pct |-> IF gain_loss_pct = None THEN None
                                    ELSE Some(RoundTo(gain_loss_pct[1], 1)),
                  price_count |-> Len(history)])

\* ------------------------------------------------------------------ the store

add_portfolio_price_replacing(history, card_id, price, source, row_title, match_confidence, today) ==
    SubSeq(history, 1, Len(history) - 1)
        \o <<[card_id |-> card_id, price |-> price, source |-> source,
              sale_type |-> None, title |-> row_title,
              match_confidence |-> match_confidence, recorded_date |-> today]>>

\* add_portfolio_price(card_id, price, source, title=, match_confidence=): one
\* more row, dated today
add_portfolio_price(history, card_id, price, source, row_title, match_confidence, today) ==
    Append(history, [card_id |-> card_id, price |-> price, source |-> source,
                     sale_type |-> None, title |-> row_title,
                     match_confidence |-> match_confidence, recorded_date |-> today])

TakeExcluded(excluded, old) == excluded

\* x or default
OrDefault(x, default) == IF TruthyStr(x) THEN x ELSE Some(default)

\* add_portfolio_card(player_name, card_year, manufacturer, set_name, ...): the
\* row inserted
add_portfolio_card(args, today) ==
    [id |-> 1,
     player_name |-> Strip(args.player_name),
     card_year |-> args.card_year,
     manufacturer |-> Strip(args.manufacturer),
     set_name |-> Strip(args.set_name),
     parallel |-> OrDefault(args.parallel, "Base"),
     numbered_to |-> args.numbered_to,
     is_autograph |-> args.is_autograph,
     is_rookie |-> args.is_rookie,
     grade |-> OrDefault(args.grade, "Raw"),
     purchase_price |-> args.purchase_price,
     purchase_date |-> IF args.purchase_date = None THEN Some(IsoDate(today))
                       ELSE args.purchase_date]

\* the columns update_portfolio_card may set, of those the model keeps
AllowedColumns ==
    {"player_name", "card_year", "manufacturer", "set_name", "parallel", "numbered_to",
     "is_autograph", "is_rookie", "grade", "purchase_price", "purchase_date"}

\* update_portfolio_card(card_id, **kwargs): the row after the UPDATE
update_portfolio_card(card, kwargs) ==
    LET updates == DOMAIN kwargs \cap AllowedColumns
    IN [col \in DOMAIN card |-> IF col \in updates THEN kwargs[col] ELSE card[col]]

\* price_check_card_cardladder: the rows after the loop over the matched sales
RECURSIVE StoreSales(_, _, _, _)
StoreSales(sales, card, today, history) ==
    IF sales = <<>> THEN history
    ELSE LET sale == Head(sales)
             skipped == sale.price = None \/ sale.price[1] = 0
             row == [card_id |-> card.id, price |-> sale.price[1], source |-> "cardladder",
                     sale_type |-> sale.sale_type, title |-> sale.title,
                     match_confidence |-> sale.match_confidence,
                     recorded_date |-> IF sale.date_sold = None THEN today
                                       ELSE sale.date_sold[1]]
         IN StoreSales(Tail(sales), card, today,
                       IF skipped THEN history ELSE Append(history, row))

\* COALESCE(excluded.x, x)
Coalesce(excluded, old) == IF excluded # None THEN excluded ELSE old

\* add_title_mapping(...): insert, or on a raw_title already there update the
\* five identity columns the new row has a value for, and confirmed
add_title_mapping(mappings, row) ==
    IF \E i \in 1..Len(mappings) : mappings[i].raw_title = row.raw_title
    THEN [i \in 1..Len(mappings) |->
            IF mappings[i].raw_title = row.raw_title
            THEN [mappings[i] EXCEPT
                    !.player_name = Coalesce(row.player_name, @),
                    !.card_year = Coalesce(row.card_year, @),
                    !.manufacturer = Coalesce(row.manufacturer, @),
                    !.set_name = Coalesce(row.set_name, @),
                    !.parallel = Coalesce(row.parallel, @),
                    !.confirmed = Max(@, row.confirmed)]
            ELSE mappings[i]]
    ELSE Append(mappings, row)

\* ------------------------------------------------------ the price check cascade

\* the mapping row price_check_card_ebay learns from an accepted title
LearnedMapping(raw_title, card) ==
    LET p == parse_title(Some(raw_title), Some(card.player_name))
    IN [raw_title |-> raw_title, player_name |-> Some(card.player_name),
        card_year |-> p.card_year, manufacturer |-> p.manufacturer,
        set_name |-> p.set_name, parallel |-> p.parallel,
        is_numbered |-> Some(p.is_numbered), numbered_to |-> p.numbered_to,
        is_autograph |-> Some(p.is_autograph), is_rookie |-> Some(p.is_rookie),
        grade |-> p.grade, source |-> Some("ebay"), confirmed |-> 0]

\* an item of a search as the loop sees it: skipped for want of a price or a
\* title, or scored against the fingerprint
ItemScore(item, fp) ==
    IF item.price = None \/ item.price[1] = 0 \/ item.title = "" THEN None
    ELSE Some(score_title_match(Some(item.title), fp))

\* (every scored item kept, whatever its score)
AcceptedAnyScore(item_score) == item_score # None

\* score >= 0.5
Accepted(item_score) == item_score # None /\ item_score[1] >= Threshold

\* an item with its score and, when it is accepted, the mapping learned from
\* its title
ScoredItem(item, item_score, card) ==
    [item |-> item, score |-> item_score,
     mapping |-> IF Accepted(item_score) THEN Some(LearnedMapping(item.title, card)) ELSE None]

\* the loop leaving at the first item without a price or a title
AcceptedItemsUntilSkip(items, card, fp) ==
    LET skipped == {i \in 1..Len(items) : ItemScore(items[i], fp) = None}
        n == IF skipped = {} THEN Len(items)
             ELSE (CHOOSE i \in skipped : \A j \in skipped : i <= j) - 1
    IN SelectSeq([i \in 1..n |-> ScoredItem(items[i], ItemScore(items[i], fp), card)],
                 LAMBDA x : Accepted(x.score))

\* the items the loop stores, in order
AcceptedItems(items, card, fp) ==
    SelectSeq([i \in 1..Len(items) |-> ScoredItem(items[i], ItemScore(items[i], fp), card)],
              LAMBDA x : Accepted(x.score))

\* (the loop left at the first stored item whose mapping write raises)
WithMappingFailuresFatal(accepted, fails) ==
    IF fails = {} THEN accepted
    ELSE LET first == CHOOSE i \in fails : \A j \in fails : i <= j
         IN [i \in 1..first |-> IF i = first THEN [accepted[i] EXCEPT !.mapping = None]
                                ELSE accepted[i]]

\* the stored items, those at the places fails left without a mapping: parse_title
\* or add_title_mapping raised for them, and the except clause passed
WithMappingFailures(accepted, fails) ==
    [i \in 1..Len(accepted) |->
        IF i \in fails THEN [accepted[i] EXCEPT !.mapping = None] ELSE accepted[i]]

\* the loop over the items of one search: acc is the rows, the mappings and
\* the count so far; an item without a mapping is one whose mapping write raised
RECURSIVE StoreMatches(_, _, _, _)
StoreMatches(accepted, card, today, acc) ==
    IF accepted = <<>> THEN acc
    ELSE LET m == Head(accepted)
         IN StoreMatches(Tail(accepted), card, today,
                [history |-> add_portfolio_price(acc.history, card.id, m.item.price[1],
                                "ebay_active", Some(m.item.title), m.score, today),
                 mappings |-> IF m.mapping = None THEN acc.mappings
                              ELSE add_title_mapping(acc.mappings, m.mapping[1]),
                 last |-> IF m.mapping = None THEN acc.last ELSE m.mapping,
                 stored |-> acc.stored + 1])

\* a sale of search_sales as search_and_match sees it: passed over for want of
\* a title, or scored against the fingerprint
SaleScore(sale, fp) ==
    IF sale.title = "" THEN None ELSE Some(score_title_match(Some(sale.title), fp))

\* a sale with its score and, when it has a title, the mapping learned from it
ScoredSale(sale, sale_score, card) ==
    [sale |-> sale, score |-> sale_score,
     mapping |-> IF sale_score = None THEN None
                 ELSE Some([LearnedMapping(sale.title, card) EXCEPT
                                !.source = Some("cardladder")])]

ScoredSales(sales, card, fp) ==
    [i \in 1..Len(sales) |-> ScoredSale(sales[i], SaleScore(sales[i], fp), card)]

\* what search_and_match returns: the sales scoring min_confidence or more,
\* each with its score as match_confidence
MatchedSales(scored, min_confidence) ==
    LET kept == SelectSeq(scored, LAMBDA x : x.score # None /\ x.score[1] >= min_confidence)
    IN [i \in 1..Len(kept) |->
            [price |-> kept[i].sale.price, title |-> Some(kept[i].sale.title),
             sale_type |-> kept[i].sale.sale_type, match_confidence |-> kept[i].score,
             date_sold |-> kept[i].sale.date_sold]]

\* search_and_match: the title mappings after its loop over the sales
RECURSIVE LearnSales(_, _)
LearnSales(scored, acc) ==
    IF scored = <<>> THEN acc
    ELSE LET m == Head(scored)
         IN LearnSales(Tail(scored),
                IF m.mapping = None THEN acc
                ELSE [mappings |-> add_title_mapping(acc.mappings, m.mapping[1]),
                      last |-> m.mapping])

NeverStopBroadening(stored_count) == FALSE

\* if stored > 0: break
StopBroadening(stored_count) == stored_count > 0

\* where the loop over the levels goes after the search at level: out of the
\* loop, or on to the next level
AfterLevel(level, stored_count) ==
    IF StopBroadening(stored_count) \/ level = 3
    THEN [pc |-> "done", level |-> level]
    ELSE [pc |-> "search", level |-> level + 1]

\* ------------------------------------------------------------------ inputs

\* how many of the six title parts (year, set, player, parallel, grade, numbering)
\* a generated listing title holds at most
MaxTitleParts == 2

TitlePartOptions == <<
    {"2024", "2023-24"},
    {"Prizm"},
    {"Jane Doe", "Doe Jane", "Jayne Doe"},
    {"Silver"},
    {"PSA 10", "PSA10"},
    {"/25", "25"} >>

\* the lists of at most n parts, one option of each chosen part, in listing order
RECURSIVE PartLists(_, _)
PartLists(options, n) ==
    IF options = <<>> THEN {<<>>}
    ELSE PartLists(Tail(options), n)
            \cup (IF n = 0 THEN {}
                  ELSE {<<o>> \o rest : o \in Head(options), rest \in PartLists(Tail(options), n - 1)})

JaneDoeAutoTitle == "2024 Panini Prizm Jane Doe Auto RC #125"
JaneDoeSilverTitle == "2024 Panini Prizm Jane Doe Silver Refractor PSA 10 /10"

JaneDoeFullTitle == "2024 Panini Prizm Jane Doe Silver Auto PSA 10 /25"

\* listing titles: absent, empty, the three reference listings and the generated ones
Titles ==
    {None, Some(JaneDoeAutoTitle), Some(JaneDoeSilverTitle), Some(JaneDoeFullTitle)}
        \cup {Some(Join(parts)) : parts \in PartLists(TitlePartOptions, MaxTitleParts)}

\* the keyword added to a title to form its autograph twin
AddedKeywords == {"Auto"}

JaneDoeFingerprint ==
    [player |-> "Jane Doe", year |-> Some(2024), manufacturer |-> "", set |-> "Prizm",
     parallel |-> Some("Base"), numbered |-> None, auto |-> TRUE, rookie |-> FALSE,
     grade |-> Some("Raw")]

Fingerprints ==
    {[JaneDoeFingerprint EXCEPT !.player = id[1], !.year = id[2], !.set = id[3],
                                !.parallel = par, !.auto = au,
                                !.grade = gn[1], !.numbered = gn[2]] :
        id \in {<<"Jane Doe", Some(2024), "Prizm">>, <<"", Some(2024), "Prizm">>,
                <<"Jane Doe", None, "Prizm">>, <<"Jane Doe", Some(2024), "">>},
        par \in {None, Some("Base"), Some("Silver")},
        au \in BOOLEAN,
        gn \in {<<Some("Raw"), None>>, <<Some("PSA 10"), Some(25)>>}}

\* price_check_all not running
BatchIdle ==
    /\ portfolio_cards = <<>>
    /\ batch_pos = 0
    /\ checked = <<>>

\* the store and the callers at rest: no card, no rows, nothing running
StoreIdle ==
    /\ card_row = None
    /\ price_history = <<>>
    /\ now = 0
    /\ title_mappings = <<>>
    /\ last_mapping = None
    /\ trends = None
    /\ pc = "idle"
    /\ cur_level = 1
    /\ stored = 0
    /\ searches = <<>>
    /\ BatchIdle

\* -------------------------------------------------- the scorer, applied

\* the title with an autograph keyword added: otherwise the same listing
WithKeyword(t, kw) == IF t = "" THEN kw ELSE t \o " " \o kw

Init ==
    /\ title \in Titles
    /\ \E kw \in AddedKeywords :
          title_kw = IF title = None THEN None ELSE Some(WithKeyword(title[1], kw))
    /\ fingerprint \in Fingerprints
    /\ score = None
    /\ score_kw = None
    /\ parsed = None
    /\ queries = <<>>
    /\ StoreIdle
    /\ calls = <<>>
    /\ summary = None

\* score_title_match(title, fingerprint)
ScoreTitleMatch ==
    /\ score = None
    /\ score' = Some(score_title_match(title, fingerprint))
    /\ UNCHANGED <<title, title_kw, fingerprint, score_kw, parsed, queries>>
    /\ UNCHANGED <<storeVars, trends, cascadeVars>>
    /\ UNCHANGED <<calls, summary>>

\* score_title_match(title_kw, fingerprint)
ScoreKeywordTitle ==
    /\ score_kw = None
    /\ score_kw' = Some(score_title_match(title_kw, fingerprint))
    /\ UNCHANGED <<title, title_kw, fingerprint, score, parsed, queries>>
    /\ UNCHANGED <<storeVars, trends, cascadeVars>>
    /\ UNCHANGED <<calls, summary>>

Next == ScoreTitleMatch \/ ScoreKeywordTitle

Spec == Init /\ [][Next]_vars

\* score_title_match and parse_title applied to one listing of the Jane Doe card

ParseTitlePartOptions == <<
    {"2024", "2023-24"},
    {"Panini", "National Treasures"},
    {"Prizm", "Donruss", "Clearly Donruss"},
    {"Jane Doe"},
    {"Silver", "Neon Green"},
    {"PSA 10", "BGS 10", "SGC 10"},
    {"BGS 9.5", "bgs9.5", "BGS 9", "SGC 9.5", "SGC 9"},
    {"Gem Mint"},
    {"/25", "#125", "Numbered 10"},
    {"Auto", "RC"} >>

ParseTitles ==
    {None, Some(JaneDoeAutoTitle), Some(JaneDoeSilverTitle)}
        \cup {Some(Join(parts)) : parts \in PartLists(ParseTitlePartOptions, MaxTitleParts)}

\* the Jane Doe fingerprint whole, numbered, and with its player, year or set
\* missing
ParseFingerprints ==
    {JaneDoeFingerprint,
     [JaneDoeFingerprint EXCEPT !.numbered = Some(25)],
     [JaneDoeFingerprint EXCEPT !.player = ""],
     [JaneDoeFingerprint EXCEPT !.year = None],
     [JaneDoeFingerprint EXCEPT !.set = ""]}

InitParse ==
    /\ title \in ParseTitles
    /\ title_kw = None
    /\ fingerprint \in ParseFingerprints
    /\ score = None
    /\ score_kw = None
    /\ parsed = None
    /\ queries = <<>>
    /\ StoreIdle
    /\ calls = <<>>
    /\ summary = None

\* parse_title(title, player_name=card["player_name"])
ParseTitle ==
    /\ parsed = None
    /\ parsed' = Some(parse_title(title, Some(fingerprint.player)))
    /\ UNCHANGED <<title, title_kw, fingerprint, score, score_kw, queries>>
    /\ UNCHANGED <<storeVars, trends, cascadeVars>>
    /\ UNCHANGED <<calls, summary>>

NextParse == ParseTitle \/ ScoreTitleMatch

SpecParse == InitParse /\ [][NextParse]_vars

\* build_ebay_query applied to one fingerprint at each level

InitQuery ==
    /\ title = None
    /\ title_kw = None
    /\ fingerprint \in Fingerprints
    /\ score = None
    /\ score_kw = None
    /\ parsed = None
    /\ queries = <<>>
    /\ StoreIdle
    /\ calls = <<>>
    /\ summary = None

\* query = build_ebay_query(fp, level=level)
BuildEbayQuery(level) ==
    /\ level \notin DOMAIN queries
    /\ queries' = [l \in DOMAIN queries \cup {level} |->
                      IF l = level THEN build_ebay_query(fingerprint, level) ELSE queries[l]]
    /\ UNCHANGED <<title, title_kw, fingerprint, score, score_kw, parsed>>
    /\ UNCHANGED <<storeVars, trends, cascadeVars>>
    /\ UNCHANGED <<calls, summary>>

NextQuery == \E level \in Levels : BuildEbayQuery(level)

SpecQuery == InitQuery /\ [][NextQuery]_vars

\* ================================================================== claims

\* C1: every score returned by score_title_match, for any title (absent and
\* empty included) and any fingerprint, lies in [0.0, 1.0].
C1_ScoreBounds ==
    \A s \in {score, score_kw} : s = None \/ (s[1] >= 0 /\ s[1] <= One)

\* a title whose weighted sum is negative (the autograph penalty alone) was scored
C1_Witness ==
    /\ title_kw # None
    /\ score_kw = Some(0)
    /\ RawScore(title_kw[1], fingerprint) < 0

\* the tokens the claim lists, in its order: player, year, set, parallel, auto,
\* grade, numbering
C3_OrderedTokens(fp) ==
    Split(fp.player)
        \o (IF TruthyInt(fp.year) THEN <<IntToStr(fp.year[1])>> ELSE <<>>)
        \o Split(fp.set)
        \o (IF TruthyStr(fp.parallel) /\ fp.parallel # Some("Base") THEN Split(fp.parallel[1]) ELSE <<>>)
        \o (IF fp.auto THEN <<"auto">> ELSE <<>>)
        \o (IF TruthyStr(fp.grade) /\ fp.grade # Some("Raw") THEN Split(fp.grade[1]) ELSE <<>>)
        \o (IF TruthyInt(fp.numbered) THEN <<"/" \o IntToStr(fp.numbered[1])>> ELSE <<>>)

\* C3: the tokens of a broader level's query are a prefix of those of every more
\* precise level's query, which is at least as long; the level-1 tokens are
\* player, year, set, parallel, auto, grade, numbering in that order.
C3_QueryCascade ==
    /\ \A l \in DOMAIN queries : \A m \in DOMAIN queries :
          l < m => /\ IsPrefix(Split(queries[m]), Split(queries[l]))
                   /\ IsPrefix(queries[m], queries[l])
                   /\ Len(queries[l]) >= Len(queries[m])
    /\ 1 \in DOMAIN queries => Split(queries[1]) = C3_OrderedTokens(fingerprint)

\* all three levels built, each strictly longer than the next broader one
C3_Witness ==
    /\ DOMAIN queries = Levels
    /\ Len(queries[1]) > Len(queries[2])
    /\ Len(queries[2]) > Len(queries[3])

\* both titles of a pair were scored: title has no autograph keyword, title_kw
\* is the same title with one added
C7_PairScored ==
    /\ title # None /\ title_kw # None
    /\ score # None /\ score_kw # None
    /\ ~AnyIn(AUTO_KEYWORDS, Lower(title[1]))
    /\ AnyIn(AUTO_KEYWORDS, Lower(title_kw[1]))

\* the six other components contribute the same to both titles of the pair
C7_OtherPartsEqual ==
    /\ PlayerPart(title[1], fingerprint) = PlayerPart(title_kw[1], fingerprint)
    /\ YearPart(title[1], fingerprint) = YearPart(title_kw[1], fingerprint)
    /\ SetPart(title[1], fingerprint) = SetPart(title_kw[1], fingerprint)
    /\ ParallelPart(title[1], fingerprint) = ParallelPart(title_kw[1], fingerprint)
    /\ GradePart(title[1], fingerprint) = GradePart(title_kw[1], fingerprint)
    /\ NumberedPart(title[1], fingerprint) = NumberedPart(title_kw[1], fingerprint)

\* C7 as claimed: the title with the keyword scores strictly lower when the
\* fingerprint is not an autograph, strictly higher when it is.
C7_Original ==
    C7_PairScored =>
        IF fingerprint.auto THEN score_kw[1] > score[1] ELSE score_kw[1] < score[1]

\* C7: for a non-empty title, when the other six components contribute the same
\* to both titles, the title with the keyword scores 0.10 higher for an autograph
\* fingerprint; for a non-autograph fingerprint it scores 0.05 lower, floored at
\* 0.0: strictly lower when the title without the keyword scores above 0.0, and
\* 0.0 like it otherwise.
C7_AutographAsymmetry ==
    (C7_PairScored /\ title[1] # "" /\ C7_OtherPartsEqual) =>
        IF fingerprint.auto
        THEN score_kw[1] = score[1] + weights.auto * Full /\ score_kw[1] > score[1]
        ELSE /\ score_kw[1] = Max(0, score[1] - (weights.auto * Full) \div 2)
             /\ score[1] > 0 => score_kw[1] < score[1]
             /\ score[1] = 0 => score_kw[1] = 0

\* a non-autograph fingerprint, a pair whose other components agree, and the
\* keyword title penalised
C7_Witness ==
    /\ C7_PairScored /\ C7_OtherPartsEqual
    /\ ~fingerprint.auto
    /\ score[1] > 0
    /\ score_kw[1] < score[1]

\* the Jane Doe autograph card scored against the silver refractor listing
C8_Scored ==
    /\ fingerprint = JaneDoeFingerprint
    /\ title = Some(JaneDoeSilverTitle)
    /\ score # None

\* C8 as claimed: the silver refractor listing scores at most 0.5.
C8_Original == C8_Scored => score[1] <= Threshold

\* C8: the silver refractor listing scores 0.65 (player 0.30, year 0.15, set 0.20,
\* nothing for parallel, autograph and grade), which is above the 0.5 threshold.
C8_SilverListingScore ==
    C8_Scored => (score[1] = 65 * Full /\ score[1] > Threshold)

C8_Witness == C8_Scored /\ score[1] = 65 * Full

\* the Jane Doe autograph card and the "Auto RC #125" listing
C9_Listing == fingerprint = JaneDoeFingerprint /\ title = Some(JaneDoeAutoTitle)

\* C9: the listing parses to year 2024, set Prizm, manufacturer Panini, autograph
\* 1, rookie 1, and scores above 0.5 against the fingerprint.
C9_AutoListing ==
    C9_Listing =>
        /\ parsed # None =>
              /\ parsed[1].card_year = Some(2024)
              /\ parsed[1].set_name = Some("Prizm")
              /\ parsed[1].manufacturer = Some("Panini")
              /\ parsed[1].is_autograph = 1
              /\ parsed[1].is_rookie = 1
        /\ score # None => score[1] > Threshold

C9_Witness == C9_Listing /\ parsed # None /\ score # None

\* some pattern listed before the one labelled name matches the text
C10_EarlierMatches(name, text) ==
    \E j \in 1..Len(GRADE_PATTERNS) :
        /\ \A i \in 1..j : GRADE_PATTERNS[i].name # name
        /\ GradeSearch(GRADE_PATTERNS[j], text)

\* C10: a title holding "BGS 9.5" (resp. "SGC 9.5") and nothing an earlier
\* pattern matches parses to that grade, never to the bare 9; the grade is the
\* label of the first pattern of the list that matches.
C10_GradePriority ==
    (title # None /\ title[1] # "" /\ parsed # None) =>
        LET text == Lower(title[1])
        IN /\ \A name \in {"BGS 9.5", "SGC 9.5"} :
                (Contains(text, Lower(name)) /\ ~C10_EarlierMatches(name, text))
                    => parsed[1].grade = Some(name)
           /\ \A i \in 1..Len(GRADE_PATTERNS) :
                (/\ GradeSearch(GRADE_PATTERNS[i], text)
                 /\ \A j \in 1..(i - 1) : ~GradeSearch(GRADE_PATTERNS[j], text))
                    => parsed[1].grade = Some(GRADE_PATTERNS[i].name)

\* a title holding "BGS 9.5" and a later pattern's text parsed to BGS 9.5
C10_Witness ==
    /\ title # None /\ parsed # None
    /\ Contains(Lower(title[1]), "bgs 9.5")
    /\ GradeSearch(GRADE_PATTERNS[Len(GRADE_PATTERNS)], Lower(title[1]))
    /\ parsed[1].grade = Some("BGS 9.5")

\* ------------------------------------------------- the trend engine, applied

MaxDays == 8

Today == 100

\* the portfolio_cards row of the tracked card
JaneDoeCard ==
    [id |-> 1, player_name |-> "Jane Doe", card_year |-> Some(2024), manufacturer |-> "Panini",
     set_name |-> "Prizm", parallel |-> Some("Base"), numbered_to |-> None,
     is_autograph |-> 0, is_rookie |-> 0, grade |-> Some("Raw"),
     purchase_price |-> None, purchase_date |-> None]

PurchasePrices == {None, Some(0), Some(10), Some(12), Some(20)}

\* absent, unparseable, or 5 / 29 / 30 / 60 days before Today
PurchaseDates ==
    {None, Some(BadDate)} \cup {Some(IsoDate(Today - held)) : held \in {5, 29, 30, 60}}

TrendCards ==
    {Some([JaneDoeCard EXCEPT !.purchase_price = pp, !.purchase_date = pd]) :
        pp \in PurchasePrices, pd \in PurchaseDates}

\* a portfolio_price_history row
PriceRow(card_id, price, day) ==
    [card_id |-> card_id, price |-> price, source |-> "ebay_active", sale_type |-> None,
     title |-> None, match_confidence |-> None, recorded_date |-> day]

\* old_days days at old_price, then new_days days at new_price, one row a day,
\* the last day being Today
TwoRunHistory(old_days, old_price, new_days, new_price) ==
    LET n == old_days + new_days
    IN [k \in 1..n |-> PriceRow(1, IF k <= old_days THEN old_price ELSE new_price,
                                Today - n + k)]

\* a second row on the last day, at twice the day's first price
WithSameDayRow(history) ==
    IF history = <<>> THEN history
    ELSE LET last == history[Len(history)]
         IN Append(history, PriceRow(1, 2 * last.price, last.recorded_date))

\* one day at 2 and then a steep rise; three days of rows at price 0; one day
\* at 40 and then a fall to 13, or to 0
SteepHistories ==
    {TwoRunHistory(1, 2, MaxDays - 1, np) : np \in {8, 12, 14}}
        \cup {TwoRunHistory(0, 10, 3, 0)}
        \cup {TwoRunHistory(1, 40, MaxDays - 1, np) : np \in {0, 13}}

\* a day at 10 and then 30 days at 0: more daily points than the longer window
LongHistories == {TwoRunHistory(1, 10, 30, 0)}

TrendHistories ==
    LET runs == {TwoRunHistory(od, op, nd, np) :
                    od \in 0..MaxDays, op \in {10, 40}, nd \in 0..MaxDays, np \in {8, 12, 14}}
                    \cup SteepHistories
        kept == {h \in runs : Len(h) <= MaxDays}
    IN kept \cup {WithSameDayRow(h) : h \in kept} \cup LongHistories

InitTrends ==
    /\ title = None
    /\ title_kw = None
    /\ fingerprint = JaneDoeFingerprint
    /\ score = None
    /\ score_kw = None
    /\ parsed = None
    /\ queries = <<>>
    /\ \/ card_row = None /\ price_history = <<>>
       \/ card_row \in TrendCards /\ price_history \in TrendHistories
    /\ now = Today
    /\ title_mappings = <<>>
    /\ last_mapping = None
    /\ trends = None
    /\ pc = "idle"
    /\ cur_level = 1
    /\ stored = 0
    /\ searches = <<>>
    /\ BatchIdle
    /\ calls = <<>>
    /\ summary = None

\* trends = calculate_trends(card_id)
CalculateTrends ==
    /\ trends = None
    /\ trends' = Some(calculate_trends(card_row, price_history, now))
    /\ UNCHANGED <<scorerVars, storeVars, cascadeVars>>
    /\ UNCHANGED <<calls, summary>>

NextTrends == CalculateTrends

SpecTrends == InitTrends /\ [][NextTrends]_vars

\* what the finished call saw: its result, and the values it derived
TrendsReturned == trends # None /\ trends[1] # None
TrendResult == trends[1][1]
TrendDays == daily_avgs(price_history)
TrendDaysHeld == DaysHeld(card_row[1].purchase_date, now)
TrendPurchase ==
    IF card_row[1].purchase_price = None THEN RatInt(0) ELSE RatInt(card_row[1].purchase_price[1])

\* C4: a card bought fewer than 30 days before now gets signal HOLD from
\* calculate_trends, whatever its price history and momentum.
C4_MinimumHold ==
    (/\ TrendsReturned
     /\ card_row[1].purchase_date # None
     /\ card_row[1].purchase_date[1].iso
     /\ now - card_row[1].purchase_date[1].day < 30)
        => TrendResult.signal = "HOLD"

\* bought 5 days ago, price falling and below the purchase price: still HOLD
C4_Witness ==
    /\ TrendsReturned
    /\ card_row[1].purchase_date = Some(IsoDate(now - 5))
    /\ Len(TrendDays) >= 3
    /\ TrendResult.momentum = "falling"
    /\ RatLess(TrendResult.current_price[1], TrendPurchase)
    /\ TrendResult.signal = "HOLD"

\* the case of the profit-protection rule, as the claim words it
C5_Case ==
    /\ TrendsReturned
    /\ Len(TrendDays) >= 3
    /\ TrendDaysHeld >= 30
    /\ TrendResult.momentum = "falling"
    /\ card_row[1].purchase_price # None
    /\ RatLess(RatScale(TrendPurchase, 13, 10), TrendResult.current_price[1])

C5_LockInGains ==
    /\ TrendResult.signal = "SELL"
    /\ TrendResult.signal_reason = "Falling price, still profitable - lock in gains"

\* C5 as stated: at least 3 daily points, held at least 30 days, momentum
\* falling and current price above 1.3 x purchase price give SELL with the
\* lock-in-gains reason.
C5_Original == C5_Case => C5_LockInGains

\* C5: at least 3 daily points, held at least 30 days, momentum falling, a
\* non-zero purchase price and current price above 1.3 x purchase price give
\* SELL with the lock-in-gains reason, not the cut-losses reason.
C5_ProfitProtection ==
    (C5_Case /\ card_row[1].purchase_price # Some(0)) => C5_LockInGains

\* purchase 10, current 14, falling, held 30 days or more
C5_Witness ==
    /\ C5_Case
    /\ card_row[1].purchase_price = Some(10)
    /\ TrendResult.current_price = Some(RatInt(14))
    /\ C5_LockInGains

\* C6 as stated: a history of exactly 2 daily points, 10 then 12, gets
\* momentum rising.
C6_TwoPointRising ==
    (/\ TrendsReturned
     /\ TrendDays = <<RatInt(10), RatInt(12)>>)
        => TrendResult.momentum = "rising"

\* ------------------------------------------------- the price check, applied

MaxItems == 2

Listing(t, p) == [title |-> t, price |-> p]

\* what a search may return: listings the scorer accepts for the card (one of
\* them without a price, one at the threshold), listings it rejects, a listing
\* without a title
Listings ==
    {Listing("2024 Prizm Jane Doe", Some(12)),
     Listing("2024 Prizm Jane Doe", None),
     Listing("Prizm Jane Doe", Some(14)),
     Listing("2024 Prizm Jane Doe", Some(0)),
     Listing("Jane Doe", Some(40)),
     Listing("", Some(8))}

RECURSIVE ItemLists(_)
ItemLists(n) ==
    IF n = 0 THEN {<<>>}
    ELSE LET shorter == ItemLists(n - 1)
         IN shorter \cup {Append(items, l) : items \in {q \in shorter : Len(q) = n - 1},
                                             l \in Listings}

CascadeCards ==
    {Some([JaneDoeCard EXCEPT !.is_autograph = au, !.parallel = par, !.purchase_price = Some(10),
                              !.purchase_date = Some(IsoDate(Today - 60))]) :
        au \in {0, 1}, par \in {Some("Base"), Some("Silver")}}

\* a title learned by an earlier check
EarlierMappings ==
    {<<>>,
     <<[LearnedMapping("2024 Prizm Jane Doe", JaneDoeCard) EXCEPT
            !.manufacturer = Some("Panini"), !.confirmed = 1]>>}

InitCascade ==
    /\ title = None
    /\ title_kw = None
    /\ fingerprint = JaneDoeFingerprint
    /\ score = None
    /\ score_kw = None
    /\ parsed = None
    /\ queries = <<>>
    /\ card_row \in CascadeCards
    /\ price_history \in {<<>>, <<PriceRow(1, 10, Today - 1)>>}
    /\ now = Today
    /\ title_mappings \in EarlierMappings
    /\ last_mapping = None
    /\ trends = None
    /\ pc = "idle"
    /\ cur_level = 1
    /\ stored = 0
    /\ searches = <<>>
    /\ BatchIdle
    /\ calls = <<>>
    /\ summary = None

\* price_check_card_ebay(card, ebay_client), up to its first search
PriceCheckCardEbay ==
    /\ pc = "idle"
    /\ card_row # None
    /\ fingerprint' = build_fingerprint(card_row[1])
    /\ stored' = 0
    /\ cur_level' = 1
    /\ pc' = "search"
    /\ queries' = <<>>
    /\ searches' = <<>>
    /\ UNCHANGED <<title, title_kw, score, score_kw, parsed>>
    /\ UNCHANGED <<storeVars, trends, batchVars>>
    /\ UNCHANGED <<calls, summary>>

\* the search at cur_level returns items; the matches are stored, the mapping
\* writes at the places fails raise, and the loop breaks or goes on
SearchReturns(items, fails) ==
    /\ pc = "search"
    /\ \E after \in {StoreMatches(WithMappingFailures(
                            AcceptedItems(items, card_row[1], fingerprint), fails),
                        card_row[1], now,
                        [history |-> price_history, mappings |-> title_mappings,
                         last |-> last_mapping, stored |-> stored])} :
          /\ queries' = [l \in DOMAIN queries \cup {cur_level} |->
                            IF l = cur_level THEN build_ebay_query(fingerprint, cur_level)
                            ELSE queries[l]]
          /\ price_history' = after.history
          /\ title_mappings' = after.mappings
          /\ last_mapping' = after.last
          /\ stored' = after.stored
          /\ searches' = Append(searches, [level |-> cur_level, failed |-> FALSE,
                                           rows_before |-> Len(price_history),
                                           rows_after |-> Len(after.history)])
          /\ pc' = AfterLevel(cur_level, after.stored).pc
          /\ cur_level' = AfterLevel(cur_level, after.stored).level
    /\ UNCHANGED <<title, title_kw, fingerprint, score, score_kw, parsed>>
    /\ UNCHANGED <<card_row, now, trends, batchVars>>
    /\ UNCHANGED <<calls, summary>>

\* the search at cur_level returns items, and every mapping write succeeds
SearchSpecificCard(items) == SearchReturns(items, {})

\* the search at cur_level returns items, and the mapping writes of the stored
\* items at the places fails raise
SearchMappingFails(items, fails) ==
    /\ pc = "search"
    /\ fails # {}
    /\ fails \subseteq 1..Len(AcceptedItems(items, card_row[1], fingerprint))
    /\ SearchReturns(items, fails)

SearchAborts ==
    /\ pc = "search"
    /\ pc' = "raised"
    /\ UNCHANGED <<scorerVars, storeVars, trends, cur_level, stored, searches, batchVars>>
    /\ UNCHANGED <<calls, summary>>

\* the search at cur_level raises: nothing stored, on to the next level
SearchFailed ==
    /\ pc = "search"
    /\ queries' = [l \in DOMAIN queries \cup {cur_level} |->
                      IF l = cur_level THEN build_ebay_query(fingerprint, cur_level)
                      ELSE queries[l]]
    /\ searches' = Append(searches, [level |-> cur_level, failed |-> TRUE,
                                     rows_before |-> Len(price_history),
                                     rows_after |-> Len(price_history)])
    /\ pc' = IF cur_level = 3 THEN "done" ELSE "search"
    /\ cur_level' = IF cur_level = 3 THEN cur_level ELSE cur_level + 1
    /\ UNCHANGED <<title, title_kw, fingerprint, score, score_kw, parsed>>
    /\ UNCHANGED <<storeVars, trends, stored, batchVars>>
    /\ UNCHANGED <<calls, summary>>

NextCascade ==
    \/ PriceCheckCardEbay
    \/ \E items \in ItemLists(MaxItems) : SearchSpecificCard(items)
    \/ SearchFailed

SpecCascade == InitCascade /\ [][NextCascade]_vars

\* C2: the searches of one price check run at levels 1, 2, 3 in that order; a
\* search is issued only while the earlier levels have stored no observation,
\* and none is issued after a level that stored one.
C2_CascadeStopsAtFirstMatch ==
    /\ Len(searches) <= 3
    /\ \A i \in 1..Len(searches) :
          /\ searches[i].level = i
          /\ searches[i].rows_before = searches[1].rows_before
          /\ i < Len(searches) => searches[i].rows_after = searches[i].rows_before
    /\ (searches # <<>> /\ searches[Len(searches)].rows_after > searches[1].rows_before)
          => pc = "done"

\* level 1 stored nothing, level 2 stored a match, and the check is over
C2_Witness ==
    /\ Len(searches) = 2
    /\ ~searches[1].failed
    /\ searches[2].rows_after > searches[2].rows_before
    /\ stored > 0
    /\ pc = "done"

\* the dictionary set names found in the parsed title
C11_Occurring == {i \in 1..Len(SETS) : Contains(Lower(title[1]), SETS[i])}

\* C11: the set_name parse_title returns is a dictionary set name (title-cased)
\* of maximal length among those occurring in the title, and None only when
\* none occurs.
C11_LongestSet ==
    (title # None /\ title[1] # "" /\ parsed # None) =>
        IF C11_Occurring = {} THEN parsed[1].set_name = None
        ELSE \E i \in C11_Occurring :
                /\ parsed[1].set_name = Some(TitleCase(SETS[i]))
                /\ \A j \in C11_Occurring : Len(SETS[j]) <= Len(SETS[i])

\* a title holding a set name and a longer one, parsed to the longer one
C11_Witness ==
    /\ title # None /\ title[1] # "" /\ parsed # None
    /\ \E i, j \in C11_Occurring : Len(SETS[i]) < Len(SETS[j])
    /\ parsed[1].set_name \in {Some("Clearly Donruss"), Some("National Treasures")}

\* ----------------------------------------------- the title mappings, applied

\* the raw titles mapped, and the rows add_title_mapping is called with: each
\* nullable column with a value or None
MappedTitles == {"2024 Prizm Jane Doe", "Prizm Jane Doe"}

MappingRows ==
    {[raw_title |-> t, player_name |-> pn, card_year |-> None, manufacturer |-> None,
      set_name |-> sn, parallel |-> None, is_numbered |-> None, numbered_to |-> None,
      is_autograph |-> None, is_rookie |-> None, grade |-> g, source |-> Some("ebay"),
      confirmed |-> c] :
        t \in MappedTitles, pn \in {Some("Jane Doe")},
        sn \in {None, Some("Prizm"), Some("Select")}, g \in {None, Some("PSA 10")},
        c \in {0, 1}}

InitMappings ==
    /\ title = None
    /\ title_kw = None
    /\ fingerprint = JaneDoeFingerprint
    /\ score = None
    /\ score_kw = None
    /\ parsed = None
    /\ queries = <<>>
    /\ StoreIdle
    /\ calls = <<>>
    /\ summary = None

\* add_title_mapping(raw_title, ...)
AddTitleMapping(row) ==
    /\ title_mappings' = add_title_mapping(title_mappings, row)
    /\ last_mapping' = Some(row)
    /\ UNCHANGED <<scorerVars, card_row, price_history, now, trends, cascadeVars>>
    /\ UNCHANGED <<calls, summary>>

NextMappings == \E row \in MappingRows : AddTitleMapping(row)

SpecMappings == InitMappings /\ [][NextMappings]_vars

\* the nullable columns of a mapping
MappingColumns ==
    {"player_name", "card_year", "manufacturer", "set_name", "parallel", "is_numbered",
     "numbered_to", "is_autograph", "is_rookie", "grade", "source"}

\* C12: a step never replaces a non-null column of a stored mapping by null,
\* and a call passing null for a column leaves the stored value of that column
\* as it was.
C12_NonDestructiveMerge ==
    [][/\ Len(title_mappings') >= Len(title_mappings)
       /\ \A i \in 1..Len(title_mappings) :
            /\ title_mappings'[i].raw_title = title_mappings[i].raw_title
            /\ \A col \in MappingColumns :
                  title_mappings[i][col] # None => title_mappings'[i][col] # None
       /\ \A row \in MappingRows :
            AddTitleMapping(row) =>
                \A i \in 1..Len(title_mappings) : \A col \in MappingColumns :
                    (title_mappings[i].raw_title = row.raw_title /\ row[col] = None)
                        => title_mappings'[i][col] = title_mappings[i][col]]_vars

\* a mapping with a set name and a grade was given a row without them, and
\* kept both
C12_Witness ==
    /\ last_mapping # None
    /\ last_mapping[1].set_name = None
    /\ last_mapping[1].grade = None
    /\ \E i \in 1..Len(title_mappings) :
          /\ title_mappings[i].raw_title = last_mapping[1].raw_title
          /\ title_mappings[i].set_name = Some("Prizm")
          /\ title_mappings[i].grade = Some("PSA 10")

\* ---------------------------------------------------- the store, applied

MaxRows == 2

\* the arguments of add_portfolio_card: parallel and grade left out, empty or
\* given
CardArgs ==
    {[player_name |-> " Jane Doe ", card_year |-> Some(2024), manufacturer |-> "Panini",
      set_name |-> "Prizm", parallel |-> par, numbered_to |-> None, is_autograph |-> 0,
      is_rookie |-> 0, grade |-> gr, purchase_price |-> Some(10), purchase_date |-> pd] :
        par \in {None, Some(""), Some("Silver")}, gr \in {Some(""), Some("PSA 10")},
        pd \in {None, Some(IsoDate(Today - 60))}}

\* the keyword arguments of update_portfolio_card
UpdateKwargs ==
    {<<>>, [id |-> 7], [parallel |-> Some("")], [grade |-> None],
     [purchase_price |-> Some(20)], [parallel |-> Some("Gold"), grade |-> Some("PSA 9")]}

\* a sale search_sales returns
Sale(t, p, d) == [price |-> p, title |-> t, sale_type |-> Some("Auction"), date_sold |-> d]

\* no sale; a sale that matches; a sale without a price before one that matches
SaleLists ==
    {<<>>,
     <<Sale("2024 Prizm Jane Doe", Some(11), Some(Today - 3))>>,
     <<Sale("2024 Prizm Jane Doe", None, None), Sale("2024 Prizm Jane Doe", Some(11), None)>>}

\* the listings a search returns here
StoreSearchResults == {<<>>, <<Listing("2024 Prizm Jane Doe", Some(12))>>}

\* the store after add_portfolio_card
InitStore ==
    /\ title = None
    /\ title_kw = None
    /\ fingerprint = JaneDoeFingerprint
    /\ score = None
    /\ score_kw = None
    /\ parsed = None
    /\ queries = <<>>
    /\ now = Today
    /\ card_row \in {Some(add_portfolio_card(args, now)) : args \in CardArgs}
    /\ price_history = <<>>
    /\ title_mappings = <<>>
    /\ last_mapping = None
    /\ trends = None
    /\ pc = "idle"
    /\ cur_level = 1
    /\ stored = 0
    /\ searches = <<>>
    /\ BatchIdle
    /\ calls = <<>>
    /\ summary = None

\* update_portfolio_card(card_id, **kwargs)
UpdatePortfolioCard(kwargs) ==
    /\ pc = "idle"
    /\ card_row # None
    /\ card_row' = Some(update_portfolio_card(card_row[1], kwargs))
    /\ UNCHANGED <<scorerVars, price_history, now, title_mappings, last_mapping, trends,
                   cascadeVars>>
    /\ UNCHANGED <<calls, summary>>

\* delete_portfolio_card(card_id, user_email): the card and its price rows go,
\* unless the ownership test fails
DeletePortfolioCard(owner_verified) ==
    /\ pc = "idle"
    /\ card_row # None
    /\ card_row' = IF owner_verified THEN None ELSE card_row
    /\ price_history' = IF owner_verified THEN <<>> ELSE price_history
    /\ UNCHANGED <<scorerVars, now, title_mappings, last_mapping, trends, cascadeVars>>
    /\ UNCHANGED <<calls, summary>>

\* add_portfolio_price(card_id, price, source)
AddPortfolioPrice(price) ==
    /\ pc = "idle"
    /\ card_row # None
    /\ Len(price_history) < MaxRows
    /\ price_history' = add_portfolio_price(price_history, card_row[1].id, price, "manual",
                                            None, Some(One), now)
    /\ UNCHANGED <<scorerVars, card_row, now, title_mappings, last_mapping, trends,
                   cascadeVars>>
    /\ UNCHANGED <<calls, summary>>

\* price_check_card_cardladder(card, cl_client): search_and_match on the sales
\* search_sales returns, then the matched sales stored
PriceCheckCardCardladder(sales) ==
    /\ pc = "idle"
    /\ card_row # None
    /\ Len(price_history) + Len(sales) <= MaxRows
    /\ \E scored \in {ScoredSales(sales, card_row[1], build_fingerprint(card_row[1]))} :
       \E learned \in {LearnSales(scored, [mappings |-> title_mappings,
                                            last |-> last_mapping])} :
          /\ price_history' = StoreSales(MatchedSales(scored, Threshold), card_row[1], now,
                                         price_history)
          /\ title_mappings' = learned.mappings
          /\ last_mapping' = learned.last
    /\ UNCHANGED <<scorerVars, card_row, now, trends, cascadeVars>>
    /\ UNCHANGED <<calls, summary>>

\* price_check_card_ebay returns
PriceCheckReturns ==
    /\ pc = "done"
    /\ pc' = "idle"
    /\ UNCHANGED <<scorerVars, storeVars, trends, cur_level, stored, searches, batchVars>>
    /\ UNCHANGED <<calls, summary>>

NextStore ==
    \/ \E kwargs \in UpdateKwargs : UpdatePortfolioCard(kwargs)
    \/ \E owner_verified \in BOOLEAN : DeletePortfolioCard(owner_verified)
    \/ \E price \in {10} : AddPortfolioPrice(price)
    \/ \E sales \in SaleLists : PriceCheckCardCardladder(sales)
    \/ PriceCheckCardEbay
    \/ \E items \in StoreSearchResults :
          Len(price_history) + Len(items) <= MaxRows /\ SearchSpecificCard(items)
    \/ SearchFailed
    \/ PriceCheckReturns

SpecStore == InitStore /\ [][NextStore]_vars

\* the rows there were are still there, unchanged, at the same places
C13_RowsKept ==
    /\ Len(price_history') >= Len(price_history)
    /\ \A i \in 1..Len(price_history) : price_history'[i] = price_history[i]

\* C13 as stated: no store operation, delete_portfolio_card included, mutates or
\* deletes a price observation.
C13_Original == [][C13_RowsKept]_vars

\* C13: a price observation is never mutated, and is deleted only with its card:
\* every step but the deletion of the card keeps the rows and at most appends;
\* the deletion of the card removes all its rows.
C13_AppendOnlyWhileCardExists ==
    [][IF card_row # None /\ card_row' = None THEN price_history' = <<>>
       ELSE C13_RowsKept]_vars

\* two observations from different sources, kept across an update of the card
C13_Witness ==
    /\ Len(price_history) = 2
    /\ price_history[1].source # price_history[2].source
    /\ card_row # None
    /\ card_row[1].purchase_price = Some(20)

\* C18 as stated: the fingerprint of a card that add_portfolio_card and
\* update_portfolio_card have produced never has an empty or absent parallel or
\* grade.
C18_Sentinels ==
    card_row # None =>
        /\ build_fingerprint(card_row[1]).parallel \notin {None, Some("")}
        /\ build_fingerprint(card_row[1]).grade \notin {None, Some("")}

\* ------------------------------------------------------ the batch, applied

MaxCards == 2

\* the k-th active card
BatchCard(k) ==
    [JaneDoeCard EXCEPT !.id = k, !.is_autograph = k % 2, !.purchase_price = Some(10),
                        !.purchase_date = Some(IsoDate(Today - 60))]

\* what get_portfolio_cards(status="active") returns: no card, or up to MaxCards
BatchCardLists == {[k \in 1..n |-> BatchCard(k)] : n \in 0..MaxCards}

\* the listings a search returns here: none, one the scorer accepts, one it
\* rejects, one without a price before one the scorer accepts, one without a
\* title before one the scorer accepts
BatchSearchResults ==
    {<<>>,
     <<Listing("2024 Prizm Jane Doe", Some(12))>>,
     <<Listing("Jane Doe", Some(40))>>,
     <<Listing("Prizm Jane Doe", None), Listing("2024 Prizm Jane Doe", Some(13))>>,
     <<Listing("", Some(8)), Listing("2024 Prizm Jane Doe", Some(15))>>}

InitBatch ==
    /\ title = None
    /\ title_kw = None
    /\ fingerprint = JaneDoeFingerprint
    /\ score = None
    /\ score_kw = None
    /\ parsed = None
    /\ queries = <<>>
    /\ card_row = None
    /\ price_history = <<>>
    /\ now = Today
    /\ title_mappings = <<>>
    /\ last_mapping = None
    /\ trends = None
    /\ pc = "idle"
    /\ cur_level = 1
    /\ stored = 0
    /\ searches = <<>>
    /\ portfolio_cards \in BatchCardLists
    /\ batch_pos = 0
    /\ checked = <<>>
    /\ calls = <<>>
    /\ summary = None

\* the card price_check_all takes at position pos, None past the last
CardAt(pos) == IF pos \in 1..Len(portfolio_cards) THEN Some(portfolio_cards[pos]) ELSE None

\* price_check_all(): the active cards are read and the first is taken in hand
PriceCheckAll ==
    /\ batch_pos = 0
    /\ batch_pos' = 1
    /\ card_row' = CardAt(1)
    /\ UNCHANGED <<scorerVars, price_history, now, title_mappings, last_mapping, trends,
                   pc, cur_level, stored, searches, portfolio_cards, checked>>
    /\ UNCHANGED <<calls, summary>>

\* the check of the card in hand has returned: on to the next card
NextCard ==
    /\ pc = "done"
    /\ batch_pos \in 1..Len(portfolio_cards)
    /\ checked' = Append(checked, [card_id |-> card_row[1].id, ebay_count |-> stored,
                                   searches |-> searches])
    /\ batch_pos' = batch_pos + 1
    /\ card_row' = CardAt(batch_pos + 1)
    /\ pc' = "idle"
    /\ UNCHANGED <<scorerVars, price_history, now, title_mappings, last_mapping, trends,
                   cur_level, stored, searches, portfolio_cards>>
    /\ UNCHANGED <<calls, summary>>

NextBatch ==
    \/ PriceCheckAll
    \/ PriceCheckCardEbay
    \/ \E items \in BatchSearchResults : SearchSpecificCard(items)
    \/ SearchFailed
    \/ NextCard

\* the loops are sequential code: a step that can be taken is taken
SpecBatch == InitBatch /\ [][NextBatch]_vars /\ WF_vars(NextBatch)

\* every active card has been checked
C14_AllChecked ==
    \A k \in 1..Len(portfolio_cards) :
        \E i \in 1..Len(checked) : checked[i].card_id = portfolio_cards[k].id

\* C14: a search that raises does not end the check: the check goes on to the
\* next level, or returns after level 3 with the count it has; and
\* price_check_all gets to every active card in the end.
C14_FailuresDoNotAbort ==
    /\ [][SearchFailed =>
            /\ stored' = stored
            /\ cur_level < 3 => (pc' = "search" /\ cur_level' = cur_level + 1)
            /\ cur_level = 3 => pc' = "done"]_vars
    /\ <>C14_AllChecked

\* the searches of the first card all raised, and the second card was checked
C14_Witness ==
    /\ Len(checked) = 2
    /\ Len(checked[1].searches) = 3
    /\ \A i \in 1..3 : checked[1].searches[i].failed
    /\ checked[1].ebay_count = 0
    /\ C14_AllChecked

\* the listing has no price or no title
C15_Skipped(item) == item.price = None \/ item.title = ""

\* the rows and mappings one search of the listings items has added
C15_NewRows == SubSeq(price_history', Len(price_history) + 1, Len(price_history'))
C15_NewTitles ==
    {title_mappings'[i].raw_title : i \in 1..Len(title_mappings')}
        \ {title_mappings[i].raw_title : i \in 1..Len(title_mappings)}

\* C15: a listing without a price or without a title is skipped: no row and no
\* title mapping comes from it, and the listings after it in the same search
\* result are still scored and, when they reach 0.5, stored.
C15_SkippedListings ==
    [][\A items \in BatchSearchResults :
          SearchSpecificCard(items) =>
              LET kept == SelectSeq(items, LAMBDA it : ~C15_Skipped(it))
                  matches == SelectSeq(kept, LAMBDA it :
                                 score_title_match(Some(it.title), fingerprint) >= Threshold)
              IN /\ Len(C15_NewRows) = Len(matches)
                 /\ \A i \in 1..Len(matches) :
                       /\ C15_NewRows[i].price = matches[i].price[1]
                       /\ C15_NewRows[i].title = Some(matches[i].title)
                 /\ C15_NewTitles \subseteq {matches[i].title : i \in 1..Len(matches)}
                 /\ stored' = stored + Len(matches)]_vars

\* the listings after a listing without a price, and after one without a
\* title, were stored, and nothing of the two skipped listings was
C15_Witness ==
    /\ \E i \in 1..Len(price_history) : price_history[i].price = 13
    /\ \E i \in 1..Len(price_history) : price_history[i].price = 15
    /\ \A i \in 1..Len(price_history) :
          price_history[i].price # 8 /\ price_history[i].title # Some("")
    /\ \A i \in 1..Len(title_mappings) :
          title_mappings[i].raw_title \notin {"", "Prizm Jane Doe"}

\* what the components the fingerprint does have contribute to the title t
C16_PresentParts(t, fp) ==
    (IF fp.player = "" THEN 0 ELSE PlayerPart(t, fp))
        + (IF fp.year = None THEN 0 ELSE YearPart(t, fp))
        + (IF fp.set = "" THEN 0 ELSE SetPart(t, fp))
        + ParallelPart(t, fp) + AutoPart(t, fp) + GradePart(t, fp)
        + (IF fp.numbered = None THEN 0 ELSE NumberedPart(t, fp))

\* C16: for an absent or empty title parse_title returns the empty result and
\* score_title_match returns 0.0; a fingerprint without a year, a set, a
\* numbering or a player adds nothing for that component, and the score is the
\* clamped sum of what the other components contribute.
C16_MalformedInput ==
    /\ (title = None \/ title = Some("")) =>
          /\ parsed # None => parsed[1] = EmptyDict
          /\ score # None => score[1] = 0
    /\ (title # None /\ title # Some("") /\ score # None) =>
          score[1] = Max(0, Min(One, C16_PresentParts(title[1], fingerprint)))

\* a fingerprint without a player scored against a title that names one
C16_Witness ==
    /\ fingerprint.player = ""
    /\ title # None
    /\ Contains(title[1], "Jane Doe")
    /\ score # None
    /\ score[1] > 0
    /\ parsed # None

\* ---------------------------------------- the scorer and the parser, called again

MaxCalls == 3

MaxTicks == 1

PureTitles == {None, Some("2024 Prizm Jane Doe")}

PureFingerprints == {JaneDoeFingerprint}

\* the mapping a price check learns from the title
PureMappingRows == {LearnedMapping("2024 Prizm Jane Doe", JaneDoeCard)}

InitPure ==
    /\ title = None
    /\ title_kw = None
    /\ fingerprint = JaneDoeFingerprint
    /\ score = None
    /\ score_kw = None
    /\ parsed = None
    /\ queries = <<>>
    /\ card_row = None
    /\ price_history = <<>>
    /\ now = Today
    /\ title_mappings = <<>>
    /\ last_mapping = None
    /\ trends = None
    /\ pc = "idle"
    /\ cur_level = 1
    /\ stored = 0
    /\ searches = <<>>
    /\ BatchIdle
    /\ calls = <<>>
    /\ summary = None

\* a call as the log keeps it: the function, its arguments, its result, and the
\* day and the number of learned mappings at the time of the call
Call(fn, args, result) ==
    [fn |-> fn, args |-> args, result |-> result, day |-> now,
     mappings |-> Len(title_mappings)]

\* (the score taken from a learned mapping of the title when there is one)
CallScoreTitleMatchLearned(t, fp) ==
    /\ Len(calls) < MaxCalls
    /\ calls' = Append(calls, Call("score_title_match", <<t, fp>>,
                    IF \E i \in 1..Len(title_mappings) : Some(title_mappings[i].raw_title) = t
                    THEN One ELSE score_title_match(t, fp)))
    /\ UNCHANGED <<scorerVars, storeVars, trends, cascadeVars, summary>>

\* score_title_match(t, fp), called by anyone at any time
CallScoreTitleMatch(t, fp) ==
    /\ Len(calls) < MaxCalls
    /\ calls' = Append(calls, Call("score_title_match", <<t, fp>>, score_title_match(t, fp)))
    /\ UNCHANGED <<scorerVars, storeVars, trends, cascadeVars, summary>>

\* parse_title(t, player_name), called by anyone at any time
CallParseTitle(t, player_name) ==
    /\ Len(calls) < MaxCalls
    /\ calls' = Append(calls, Call("parse_title", <<t, player_name>>, parse_title(t, player_name)))
    /\ UNCHANGED <<scorerVars, storeVars, trends, cascadeVars, summary>>

\* a day passes
Tick ==
    /\ now < Today + MaxTicks
    /\ now' = now + 1
    /\ UNCHANGED <<scorerVars, card_row, price_history, title_mappings, last_mapping,
                   trends, cascadeVars, calls, summary>>

NextPure ==
    \/ \E t \in PureTitles, fp \in PureFingerprints : CallScoreTitleMatch(t, fp)
    \/ \E t \in PureTitles : CallParseTitle(t, Some("Jane Doe"))
    \/ \E row \in PureMappingRows : AddTitleMapping(row)
    \/ Tick

SpecPure == InitPure /\ [][NextPure]_vars

C19_SellOnlyWhenFalling ==
    TrendsReturned =>
        /\ TrendResult.signal \in {"HOLD", "SELL"}
        /\ TrendResult.momentum \in {"rising", "stable", "falling", "insufficient_data"}
        /\ TrendResult.signal = "SELL" => TrendResult.momentum = "falling"
        /\ TrendResult.momentum \in {"rising", "stable", "insufficient_data"}
              => TrendResult.signal = "HOLD"

\* a price risen to 1.4 x the purchase price, held 30 days or more, with enough
\* daily points: HOLD for gains
C19_Witness ==
    /\ TrendsReturned
    /\ Len(TrendDays) >= 3
    /\ TrendDaysHeld >= 30
    /\ TrendResult.momentum = "rising"
    /\ card_row[1].purchase_price = Some(10)
    /\ TrendResult.current_price = Some(RatInt(14))
    /\ TrendResult.signal = "HOLD"
    /\ TrendResult.signal_reason = "Rising trend - hold for gains"

\* the title t holds every component of the fingerprint fp, which has a player,
\* a year, a set, a parallel other than Base, an autograph, a grade other than
\* Raw and a numbering
C20_FullMatch(t, fp) ==
    /\ fp.player # "" /\ Contains(Lower(t), Strip(Lower(fp.player)))
    /\ TruthyInt(fp.year) /\ Contains(t, IntToStr(fp.year[1]))
    /\ fp.set # "" /\ Contains(Lower(t), Strip(Lower(fp.set)))
    /\ TruthyStr(fp.parallel) /\ fp.parallel # Some("Base")
    /\ Contains(Lower(t), Strip(Lower(fp.parallel[1])))
    /\ fp.auto /\ AnyIn(AUTO_KEYWORDS, Lower(t))
    /\ TruthyStr(fp.grade) /\ fp.grade # Some("Raw") /\ Contains(Lower(t), Lower(fp.grade[1]))
    /\ TruthyInt(fp.numbered) /\ Contains(t, "/" \o IntToStr(fp.numbered[1]))

\* C20: the seven weights sum to 1.0, so a title that holds every component of
\* a fingerprint with a parallel other than Base, an autograph, a grade other
\* than Raw and a numbering scores 1.0, and the weighted sum of no title is
\* above 1.0 before it is clamped.
C20_WeightsSumToOne ==
    /\ weights = [player |-> 30, year |-> 15, set |-> 20, parallel |-> 15,
                  auto |-> 10, grade |-> 5, numbered |-> 5]
    /\ (weights.player + weights.year + weights.set + weights.parallel
            + weights.auto + weights.grade + weights.numbered) * Full = One
    /\ \A pair \in {<<title, score>>, <<title_kw, score_kw>>} :
          (pair[1] # None /\ pair[1] # Some("") /\ pair[2] # None) =>
              /\ RawScore(pair[1][1], fingerprint) <= One
              /\ C20_FullMatch(pair[1][1], fingerprint) =>
                    (RawScore(pair[1][1], fingerprint) = One /\ pair[2][1] = One)

\* the listing that holds every component of the silver, autographed, PSA 10,
\* /25 Jane Doe card scored 1.0
C20_Witness ==
    /\ title = Some(JaneDoeFullTitle)
    /\ C20_FullMatch(title[1], fingerprint)
    /\ score = Some(One)

\* C21: an upsert on a stored raw_title makes every column that is null in the
\* stored mapping and non-null in the call non-null, and never lowers a
\* confirmed flag of 1.
C21_UpsertFillsGaps ==
    [][\A row \in MappingRows :
          AddTitleMapping(row) =>
              \A i \in 1..Len(title_mappings) :
                  title_mappings[i].raw_title = row.raw_title =>
                      /\ \A col \in MappingColumns :
                            (title_mappings[i][col] = None /\ row[col] # None)
                                => title_mappings'[i][col] # None
                      /\ title_mappings[i].confirmed = 1
                            => title_mappings'[i].confirmed = 1]_vars

\* the query holds no leading, trailing or doubled space
C22_SingleSpaced(q) ==
    /\ q # "" => (CharAt(q, 1) # " " /\ CharAt(q, Len(q)) # " ")
    /\ ~Contains(q, "  ")
    /\ Join(Split(q)) = q

\* C22: for every fingerprint and level, build_ebay_query emits no empty
\* token: the tokens are separated by exactly one space and the query has no
\* leading, trailing or doubled space.
C22_NoEmptyToken ==
    \A l \in DOMAIN queries : C22_SingleSpaced(queries[l])

\* the two guards of the signal have passed and the momentum is falling
C23_FallingPastGuards ==
    /\ TrendsReturned
    /\ Len(TrendDays) >= 3
    /\ TrendDaysHeld >= 30
    /\ TrendResult.momentum = "falling"

C23_CutLossesSell ==
    /\ TrendResult.signal = "SELL"
    /\ TrendResult.signal_reason = "Falling price, below purchase - cut losses"

\* falling, and the current price from the purchase price to 1.3 x it,
\* inclusive: HOLD, and past the two guards with the monitor reason
C23_MonitorBand ==
    (/\ TrendsReturned
     /\ TrendResult.momentum = "falling"
     /\ ~RatLess(TrendResult.current_price[1], TrendPurchase)
     /\ ~RatLess(RatScale(TrendPurchase, 13, 10), TrendResult.current_price[1]))
        => /\ TrendResult.signal = "HOLD"
           /\ C23_FallingPastGuards =>
                 TrendResult.signal_reason = "Falling but near purchase price - monitor"

C24_MeanOfLast(points, n) ==
    LET from == IF Len(points) > n THEN Len(points) - n + 1 ELSE 1
    IN RatScale(RatSum(SubSeq(points, from, Len(points))), 1, Len(points) - from + 1)

\* x against base: more than 10% above, more than 10% below, or neither
C24_Class(x, base) ==
    IF RatLess(RatScale(base, 11, 10), x) THEN "rising"
    ELSE IF RatLess(x, RatScale(base, 9, 10)) THEN "falling"
    ELSE "stable"

\* the momentum as the claim words it
C24_MomentumAsStated(points) ==
    IF points # <<>> /\ RatPos(C24_MeanOfLast(points, 30))
    THEN C24_Class(C24_MeanOfLast(points, 7), C24_MeanOfLast(points, 30))
    ELSE IF Len(points) >= 2 THEN C24_Class(points[Len(points)], points[1])
    ELSE "insufficient_data"

\* the momentum with the first point required to be above 0 in the comparison
\* of the first and last points
C24_MomentumExpected(points) ==
    IF points # <<>> /\ RatPos(C24_MeanOfLast(points, 30))
    THEN C24_Class(C24_MeanOfLast(points, 7), C24_MeanOfLast(points, 30))
    ELSE IF Len(points) >= 2 /\ RatPos(points[1]) THEN C24_Class(points[Len(points)], points[1])
    ELSE "insufficient_data"

\* the returned average is the mean rounded to 2 places, absent when it is 0
C24_Returned(returned, mean) ==
    IF mean[1] = 0 THEN returned = None
    ELSE returned # None /\ Abs(200 * (returned[1][1] * mean[2] - mean[1] * returned[1][2]))
                                <= returned[1][2] * mean[2]

CheckSearchResults ==
    BatchSearchResults
        \cup {<<Listing("Prizm Jane Doe Silver", Some(14))>>,
              <<Listing("2024 Prizm Jane Doe", Some(12)),
                Listing("2024 Prizm Jane Doe Auto", Some(16))>>}

\* the sales search_sales returns here: those of the store, one that does not
\* match, one without a title, one scoring exactly 0.5 for the card
CheckSaleLists ==
    SaleLists
        \cup {<<Sale("Jane Doe", Some(40), None)>>,
              <<Sale("", Some(8), None)>>,
              <<Sale("Prizm Jane Doe Silver", Some(14), None)>>}

InitChecks ==
    /\ title = None
    /\ title_kw = None
    /\ fingerprint = JaneDoeFingerprint
    /\ score = None
    /\ score_kw = None
    /\ parsed = None
    /\ queries = <<>>
    /\ card_row = Some(BatchCard(1))
    /\ price_history = <<>>
    /\ now = Today
    /\ title_mappings = <<>>
    /\ last_mapping = None
    /\ trends = None
    /\ pc = "idle"
    /\ cur_level = 1
    /\ stored = 0
    /\ searches = <<>>
    /\ BatchIdle
    /\ calls = <<>>
    /\ summary = None

NextChecks ==
    \/ PriceCheckCardEbay
    \/ \E items \in CheckSearchResults :
          Len(price_history) + Len(items) <= MaxRows /\ SearchSpecificCard(items)
    \/ \E items \in CheckSearchResults : \E fails \in SUBSET (1..Len(items)) :
          Len(price_history) + Len(items) <= MaxRows /\ SearchMappingFails(items, fails)
    \/ SearchFailed
    \/ PriceCheckReturns
    \/ \E sales \in CheckSaleLists : PriceCheckCardCardladder(sales)

SpecChecks == InitChecks /\ [][NextChecks]_vars

\* the step has left a mapping of the title t in the store
C25_Mapped(t) == \E i \in 1..Len(title_mappings') : title_mappings'[i].raw_title = t

\* C25: every listing with a title and a price that an eBay search returns, and
\* every sale with a title that the Card Ladder search returns, has a title
\* mapping after the check, whether the title scored above or below the
\* threshold.
C25_LearnsRejectedTitles ==
    [][/\ \A items \in CheckSearchResults :
            SearchSpecificCard(items) =>
                \A i \in 1..Len(items) :
                    (items[i].title # "" /\ items[i].price # None) => C25_Mapped(items[i].title)
       /\ \A sales \in CheckSaleLists :
            PriceCheckCardCardladder(sales) =>
                \A i \in 1..Len(sales) : sales[i].title # "" => C25_Mapped(sales[i].title)]_vars

\* the score of the title of a stored row against the fingerprint of the card
C26_RowScore(row) == score_title_match(row.title, build_fingerprint(card_row[1]))

\* C26 as stated: every stored eBay / Card Ladder observation has a
\* match_confidence equal to the score of its title, and that score is above
\* 0.5.
C26_Original ==
    \A i \in 1..Len(price_history) :
        price_history[i].source \in {"ebay_active", "cardladder"} =>
            /\ price_history[i].match_confidence = Some(C26_RowScore(price_history[i]))
            /\ C26_RowScore(price_history[i]) > Threshold

\* C26: every stored eBay / Card Ladder observation has a match_confidence
\* equal to the score of its title, and that score is 0.5 or more: no listing
\* scoring below 0.5 is stored, one scoring exactly 0.5 is.
C26_AcceptanceThreshold ==
    \A i \in 1..Len(price_history) :
        price_history[i].source \in {"ebay_active", "cardladder"} =>
            /\ price_history[i].match_confidence = Some(C26_RowScore(price_history[i]))
            /\ C26_RowScore(price_history[i]) >= Threshold

\* an eBay row and a Card Ladder row, one of them scoring exactly 0.5
C26_Witness ==
    /\ Len(price_history) = 2
    /\ price_history[1].source # price_history[2].source
    /\ \E i \in 1..2 : price_history[i].match_confidence = Some(Threshold)
    /\ \E i \in 1..2 : price_history[i].match_confidence[1] > Threshold

\* the rows the step has appended to the price history
C30_Added == SubSeq(price_history', Len(price_history) + 1, Len(price_history'))

\* the step is a search that has appended rows, all of them listings of items
C30_StoredFrom(items) ==
    /\ pc = "search"
    /\ Len(C30_Added) \in 1..Len(items)
    /\ \A k \in 1..Len(C30_Added) :
          \E i \in 1..Len(items) : C30_Added[k].title = Some(items[i].title)

\* C30: when the mapping write of a stored listing raises, the observation
\* of that listing is kept, the listings after it are still stored, and the
\* count grows by the number of rows the step has added.
C30_MappingFailureKeepsObservation ==
    [][\A items \in CheckSearchResults : \A fails \in SUBSET (1..Len(items)) :
          (C30_StoredFrom(items) /\ SearchMappingFails(items, fails)) =>
              LET matches == SelectSeq(items, LAMBDA it :
                                 /\ it.price # None /\ it.price # Some(0) /\ it.title # ""
                                 /\ score_title_match(Some(it.title), fingerprint) >= Threshold)
              IN /\ Len(C30_Added) = Len(matches)
                 /\ \A i \in 1..Len(matches) :
                       /\ C30_Added[i].price = matches[i].price[1]
                       /\ C30_Added[i].title = Some(matches[i].title)
                 /\ SubSeq(price_history', 1, Len(price_history)) = price_history
                 /\ stored' = stored + Len(C30_Added)
                 /\ pc' \in {"search", "done"}]_vars

\* both listings of a search stored although the mapping write of the first
\* raised: its title has no mapping, the title of the second has one
C30_Witness ==
    /\ Len(price_history) = 2
    /\ price_history[1].price = 12 /\ price_history[2].price = 16
    /\ stored = 2
    /\ \A i \in 1..Len(title_mappings) : title_mappings[i].raw_title # "2024 Prizm Jane Doe"
    /\ \E i \in 1..Len(title_mappings) : title_mappings[i].raw_title = "2024 Prizm Jane Doe Auto"

\* ------------------------------------------ short histories and purchase dates

C29_Undated == card_row[1].purchase_date = None \/ ~card_row[1].purchase_date[1].iso

\* C29: a card without a purchase_date, or with one that does not parse, is
\* held 0 days and gets HOLD under every price history; SELL is returned only
\* for a card whose purchase_date parses and lies 30 days or more before now.
C29_UndatedHolds ==
    TrendsReturned =>
        /\ C29_Undated =>
              /\ TrendDaysHeld = 0
              /\ TrendResult.signal = "HOLD"
              /\ Len(TrendDays) >= 3 =>
                    TrendResult.signal_reason = "Held 0 days - too early to signal"
        /\ TrendResult.signal = "SELL" =>
              /\ ~C29_Undated
              /\ now - card_row[1].purchase_date[1].day >= 30

\* a purchase_date that does not parse, bought at 20, 8 daily points falling
\* from 40 to 13: HOLD, held 0 days
C29_Witness ==
    /\ TrendsReturned
    /\ card_row[1].purchase_date = Some(BadDate)
    /\ TrendPurchase = RatInt(20)
    /\ TrendResult.momentum = "falling"
    /\ TrendResult.current_price = Some(RatInt(13))
    /\ TrendResult.signal_reason = "Held 0 days - too early to signal"

\* ------------------------------------------------ the portfolio summary

\* In this part portfolio_cards is the table of the active cards, and
\* price_history holds the price rows of all of them.

\* the price rows of one card
get_portfolio_price_history(history, card_id) ==
    SelectSeq(history, LAMBDA r : r.card_id = card_id)

\* the row of one card, None when the table has none
get_portfolio_card(table, card_id) ==
    IF \E i \in 1..Len(table) : table[i].id = card_id
    THEN Some(table[CHOOSE i \in 1..Len(table) : table[i].id = card_id])
    ELSE None

\* get_portfolio_cards(status="active"): the cards joined to their price rows
\* of the latest recorded date, so a card comes once per such row, and once
\* when it has no price row
RECURSIVE get_portfolio_cards(_, _)
get_portfolio_cards(table, history) ==
    IF table = <<>> THEN <<>>
    ELSE LET card == Head(table)
             rows == get_portfolio_price_history(history, card.id)
             latest == {i \in 1..Len(rows) :
                           \A j \in 1..Len(rows) : rows[j].recorded_date <= rows[i].recorded_date}
             copies == IF rows = <<>> THEN 1 ELSE Cardinality(latest)
         IN [i \in 1..copies |-> card] \o get_portfolio_cards(Tail(table), history)

\* the price rows a card has here: none, one row, two rows on one day, or a
\* day at 40 and then a fall to 8
SummaryCardHistories ==
    {<<>>, TwoRunHistory(0, 10, 1, 12), WithSameDayRow(TwoRunHistory(0, 10, 1, 12)),
     TwoRunHistory(1, 40, MaxDays - 1, 8)}

\* the price rows of the cards 1..n, each card with one of its histories
RECURSIVE SummaryHistories(_)
SummaryHistories(n) ==
    IF n = 0 THEN {<<>>}
    ELSE {h \o [i \in 1..Len(c) |-> [c[i] EXCEPT !.card_id = n]] :
            h \in SummaryHistories(n - 1), c \in SummaryCardHistories}

InitSummary ==
    /\ title = None
    /\ title_kw = None
    /\ fingerprint = JaneDoeFingerprint
    /\ score = None
    /\ score_kw = None
    /\ parsed = None
    /\ queries = <<>>
    /\ card_row = None
    /\ \E n \in 0..MaxCards :
          /\ portfolio_cards = [k \in 1..n |-> BatchCard(k)]
          /\ price_history \in SummaryHistories(n)
    /\ now = Today
    /\ title_mappings = <<>>
    /\ last_mapping = None
    /\ trends = None
    /\ pc = "idle"
    /\ cur_level = 1
    /\ stored = 0
    /\ searches = <<>>
    /\ batch_pos = 0
    /\ checked = <<>>
    /\ calls = <<>>
    /\ summary = None

\* get_portfolio_summary(), up to its loop: the active cards are listed
GetPortfolioSummary ==
    /\ summary = None
    /\ \E cards \in {get_portfolio_cards(portfolio_cards, price_history)} :
          summary' = Some([state |-> "loop", cards |-> cards, total_cards |-> Len(cards),
                           pos |-> 1, card |-> None,
                           total_invested |-> RatInt(0), total_current |-> RatInt(0),
                           signals |-> [HOLD |-> 0, SELL |-> 0], card_details |-> <<>>,
                           result |-> None])
    /\ UNCHANGED <<scorerVars, storeVars, trends, cascadeVars, calls>>

\* the loop body up to calculate_trends' first read: card = get_portfolio_card(card_id).
\* For a card that is gone calculate_trends returns None, and trends.get raises.
SummaryGetCard ==
    /\ summary # None
    /\ summary[1].state = "loop"
    /\ summary[1].pos <= Len(summary[1].cards)
    /\ \E card \in {get_portfolio_card(portfolio_cards, summary[1].cards[summary[1].pos].id)} :
          summary' = Some([summary[1] EXCEPT
                              !.state = IF card = None THEN "raised" ELSE "trends",
                              !.card = card])
    /\ UNCHANGED <<scorerVars, storeVars, trends, cascadeVars, calls>>

\* the rest of the loop body: calculate_trends reads the price rows and returns,
\* and the totals, the signal counts and card_details take the card in
SummaryTrends ==
    /\ summary # None
    /\ summary[1].state = "trends"
    /\ \E t \in {calculate_trends(summary[1].card,
                     get_portfolio_price_history(price_history, summary[1].card[1].id),
                     now)[1]} :
          LET listed == summary[1].cards[summary[1].pos]
              purchase == IF listed.purchase_price = None THEN RatInt(0)
                          ELSE RatInt(listed.purchase_price[1])
              current == IF t.current_price = None \/ t.current_price[1][1] = 0
                         THEN purchase ELSE t.current_price[1]
          IN summary' = Some([summary[1] EXCEPT
                  !.state = "loop",
                  !.pos = @ + 1,
                  !.card = None,
                  !.total_invested = RatAdd(@, purchase),
                  !.total_current = RatAdd(@, current),
                  !.signals = [@ EXCEPT ![t.signal] = @ + 1],
                  !.card_details = Append(@, [card |-> listed, trends |-> t])])
    /\ UNCHANGED <<scorerVars, storeVars, trends, cascadeVars, calls>>

\* the loop is over: the summary is returned
SummaryReturns ==
    /\ summary # None
    /\ summary[1].state = "loop"
    /\ summary[1].pos > Len(summary[1].cards)
    /\ LET s == summary[1]
           gain == RatSub(s.total_current, s.total_invested)
       IN summary' = Some([s EXCEPT
              !.state = "returned",
              !.result = Some([total_cards |-> s.total_cards,
                               total_invested |-> RoundTo(s.total_invested, 2),
                               total_current |-> RoundTo(s.total_current, 2),
                               unrealized_gain_loss |-> RoundTo(gain, 2),
                               unrealized_pct |->
                                   IF s.total_invested[1] = 0 THEN RatInt(0)
                                   ELSE RoundTo(RatScale(gain, 100 * s.total_invested[2],
                                                         s.total_invested[1]), 1),
                               signals |-> s.signals,
                               cards |-> s.card_details])])
    /\ UNCHANGED <<scorerVars, storeVars, trends, cascadeVars, calls>>

\* delete_portfolio_card(card_id), run by another process on the same
\* database: the price rows of the card and its row go in one transaction
DeleteListedCard(card_id) ==
    /\ get_portfolio_card(portfolio_cards, card_id) # None
    /\ portfolio_cards' = SelectSeq(portfolio_cards, LAMBDA c : c.id # card_id)
    /\ price_history' = SelectSeq(price_history, LAMBDA r : r.card_id # card_id)
    /\ UNCHANGED <<scorerVars, card_row, now, title_mappings, last_mapping, trends,
                   pc, cur_level, stored, searches, batch_pos, checked, calls, summary>>

NextSummary ==
    \/ GetPortfolioSummary
    \/ SummaryGetCard
    \/ SummaryTrends
    \/ SummaryReturns
    \/ \E card_id \in 1..MaxCards : DeleteListedCard(card_id)

SpecSummary == InitSummary /\ [][NextSummary]_vars

\* C28: get_portfolio_summary does not raise, and the summary it returns has a
\* trend result for every card it listed and signal counts with
\* HOLD + SELL = total_cards, also when delete_portfolio_card removes a listed
\* card between the listing and the calculate_trends call of that card.
C28_SummaryCompletes ==
    summary # None =>
        /\ summary[1].state # "raised"
        /\ summary[1].state = "returned" =>
              /\ Len(summary[1].result[1].cards) = summary[1].total_cards
              /\ summary[1].result[1].signals.HOLD + summary[1].result[1].signals.SELL
                    = summary[1].result[1].total_cards

============================================================================
